---------------------------- MODULE Spec2Model ----------------------------
(***************************************************************************)
(* i3-dmenu-desktop-rs: resolution of XDG desktop entries to launchable    *)
(* applications.  Strings are sequences of one-character strings, so that  *)
(* scanning, quoting, regex matching and formatting are computed character *)
(* by character as the Rust code computes them.                            *)
(***************************************************************************)
EXTENDS Integers, Sequences, FiniteSets, TLC

VARIABLES
    call,       \* the function under examination and its arguments
    ret,        \* its return value, NoRet before it returns
    parser,     \* DesktopEntry::parse: its local variables during the line scan
    env,        \* the environment variables the XDGManager reads
    pc,         \* where start_app_launcher stands
    dir_idx,    \* get_app_map: index of the data directory being listed
    visited,    \* get_app_map: the directory entries seen so far, in order
    apps,       \* get_app_map: the map from display name to desktop entry
    launched,   \* the chooser's answer and what was handed to i3-msg
    disk,       \* the desktop entry files in the data directories
    cache_file, \* the cache file on disk
    cached_apps,\* the map get_cached_desktop_entries returned
    pass        \* bookkeeping of the resolution pass under way

fnVars == <<call, ret, parser>>
cacheVars == <<disk, cache_file, cached_apps, pass>>
appVars == <<env, pc, dir_idx, visited, apps, launched, cacheVars>>
vars == <<call, ret, parser, env, pc, dir_idx, visited, apps, launched,
          disk, cache_file, cached_apps, pass>>

(***************************************************************************)
(* Bounds of the model                                                     *)
(***************************************************************************)
\* longest command string handed to escape_for_i3_exec
MaxCmdLen == 4
\* longest lang / COUNTRY / ENCODING / MODIFIER part of a locale identifier
MaxPartLen == 2
\* longest generated Exec template handed to replace_field_codes
MaxTemplateLen == 3
\* most lines of a desktop entry file read by one parse
MaxLines == 4
\* most directory entries seen in one walk over the data directories
MaxFiles == 4

(***************************************************************************)
(* Characters and string helpers                                           *)
(***************************************************************************)
DQ == "\""
BS == "\\"
SP == " "

NoRet == [none |-> TRUE]
None == [is_some |-> FALSE]
Some(v) == [is_some |-> TRUE, val |-> v]

\* all strings over an alphabet, of length lo..hi
Strs(alphabet, lo, hi) == UNION {[1..n -> alphabet] : n \in lo..hi}

\* s with the characters lo..hi removed
Cut(s, lo, hi) == SubSeq(s, 1, lo - 1) \o SubSeq(s, hi + 1, Len(s))

\* number of positions 1..n of s holding a character of set
CountIn(s, n, set) == Cardinality({i \in 1..n : s[i] \in set})

\* smallest member of a non-empty set of integers
Min(S) == CHOOSE x \in S : \A y \in S : x <= y

\* [String]::join
RECURSIVE join(_, _)
join(strs, sep) ==
    IF Len(strs) = 0 THEN <<>>
    ELSE IF Len(strs) = 1 THEN strs[1]
    ELSE strs[1] \o sep \o join(Tail(strs), sep)

(***************************************************************************)
(* app_launcher.rs: escape_for_i3_exec                                     *)
(***************************************************************************)
\* the loop over cmd.chars(), from character i on
RECURSIVE push_escaped(_, _)
push_escaped(cmd, i) ==
    IF i > Len(cmd) THEN <<>>
    ELSE (IF cmd[i] = DQ \/ cmd[i] = BS THEN <<BS>> ELSE <<>>)
         \o <<cmd[i]>> \o push_escaped(cmd, i + 1)

\* a variant that escapes the double quote but forgets the backslash
RECURSIVE push_escaped_quote_only(_, _)
push_escaped_quote_only(cmd, i) ==
    IF i > Len(cmd) THEN <<>>
    ELSE (IF cmd[i] = DQ THEN <<BS>> ELSE <<>>)
         \o <<cmd[i]>> \o push_escaped_quote_only(cmd, i + 1)

escape_for_i3_exec_quote_only(cmd) ==
    <<DQ>> \o push_escaped_quote_only(cmd, 1) \o <<DQ>>

escape_for_i3_exec(cmd) ==
    <<DQ>> \o push_escaped(cmd, 1) \o <<DQ>>

(***************************************************************************)
(* lib.rs: get_locale_keys                                                 *)
(***************************************************************************)
\* end of the longest run of characters other than '@' starting at i (i - 1 if none)
RECURSIVE run_not_at(_, _)
run_not_at(s, i) ==
    IF i > Len(s) \/ s[i] = "@" THEN i - 1 ELSE run_not_at(s, i + 1)

\* Regex c[^@]+ : start of the leftmost match, 0 if there is none
char_then_not_at_find(s, c) ==
    LET starts == {i \in 1..Len(s) : s[i] = c /\ run_not_at(s, i + 1) >= i + 1}
    IN  IF starts = {} THEN 0 ELSE Min(starts)

\* Regex::replace(s, "") for c[^@]+ : the leftmost (greedy) match removed
char_then_not_at_replace(s, c) ==
    LET m == char_then_not_at_find(s, c)
    IN  IF m = 0 THEN s ELSE Cut(s, m, run_not_at(s, m + 1))

\* ENCODING = \.[^@]+
ENCODING_replace(s) == char_then_not_at_replace(s, ".")

\* COUNTRY = _[^@]+
COUNTRY_replace(s) == char_then_not_at_replace(s, "_")

\* COUNTRY_AND_MODIFIER = _[^@]+@
COUNTRY_AND_MODIFIER_is_match(s) ==
    \E i \in 1..Len(s) :
        /\ s[i] = "_"
        /\ run_not_at(s, i + 1) >= i + 1
        /\ run_not_at(s, i + 1) < Len(s)

\* Regex::replace(s, "") for [set].* : everything from the first character of set on
from_first_replace(s, set) ==
    LET starts == {i \in 1..Len(s) : s[i] \in set}
    IN  IF starts = {} THEN s ELSE SubSeq(s, 1, Min(starts) - 1)

\* MODIFIER = @.*
MODIFIER_replace(s) == from_first_replace(s, {"@"})

\* COUNTRY_OR_MODIFIER = [_@].*
COUNTRY_OR_MODIFIER_replace(s) == from_first_replace(s, {"_", "@"})

\* a variant that pushes the country-less key before the modifier-less one
get_locale_keys_swapped(lc_messages) ==
    LET lc == ENCODING_replace(lc_messages)
        lang == COUNTRY_OR_MODIFIER_replace(lc)
    IN  <<lc>>
        \o (IF COUNTRY_AND_MODIFIER_is_match(lc)
            THEN <<COUNTRY_replace(lc), MODIFIER_replace(lc)>> ELSE <<>>)
        \o (IF lang # lc THEN <<lang>> ELSE <<>>)

get_locale_keys(lc_messages) ==
    LET lc == ENCODING_replace(lc_messages)
        lang == COUNTRY_OR_MODIFIER_replace(lc)
    IN  <<lc>>
        \o (IF COUNTRY_AND_MODIFIER_is_match(lc)
            THEN <<MODIFIER_replace(lc), COUNTRY_replace(lc)>> ELSE <<>>)
        \o (IF lang # lc THEN <<lang>> ELSE <<>>)

(***************************************************************************)
(* desktop_entry.rs: replace_field_codes                                   *)
(***************************************************************************)
\* the letters of FIELD_CODE = %[fFuUdDnNickvm]
FIELD_CODE_letters ==
    {"f", "F", "u", "U", "d", "D", "n", "N", "i", "c", "k", "v", "m"}

\* start of the leftmost match of FIELD_CODE at or after i, 0 if there is none
RECURSIVE FIELD_CODE_find(_, _)
FIELD_CODE_find(s, i) ==
    IF i + 1 > Len(s) THEN 0
    ELSE IF s[i] = "%" /\ s[i + 1] \in FIELD_CODE_letters THEN i
    ELSE FIELD_CODE_find(s, i + 1)

\* a variant of the closure that gives all arguments for %f and %u
field_code_value_all_args(self, code, first_arg, all_args) ==
    CASE code \in {<<"%", "f">>, <<"%", "u">>, <<"%", "F">>, <<"%", "U">>} -> all_args
      [] code = <<"%", "c">> -> self.Name
      [] code = <<"%", "k">> -> self.location
      [] OTHER -> <<>>

\* the closure handed to replace_all: the replacement of one match
field_code_value(self, code, first_arg, all_args) ==
    CASE code = <<"%", "f">> -> first_arg
      [] code = <<"%", "F">> -> all_args
      [] code = <<"%", "u">> -> first_arg
      [] code = <<"%", "U">> -> all_args
      [] code = <<"%", "i">> -> <<>>
      [] code = <<"%", "c">> -> self.Name
      [] code = <<"%", "k">> -> self.location
      [] code \in {<<"%", "d">>, <<"%", "D">>, <<"%", "n">>, <<"%", "N">>,
                   <<"%", "v">>, <<"%", "m">>} -> <<>>
      [] code = <<"%", "%">> -> <<"%">>
      [] OTHER -> <<>>

\* Regex::replace_all: the non-overlapping matches from i on, left to right
RECURSIVE FIELD_CODE_replace_all(_, _, _, _, _)
FIELD_CODE_replace_all(self, s, i, first_arg, all_args) ==
    LET m == FIELD_CODE_find(s, i)
    IN  IF m = 0 THEN SubSeq(s, i, Len(s))
        ELSE SubSeq(s, i, m - 1)
             \o field_code_value(self, SubSeq(s, m, m + 1), first_arg, all_args)
             \o FIELD_CODE_replace_all(self, s, m + 2, first_arg, all_args)

replace_field_codes(self, exec_str, extra_args) ==
    LET first_arg == IF Len(extra_args) > 0 THEN extra_args[1] ELSE <<>>
        all_args == join(extra_args, <<SP>>)
    IN  FIELD_CODE_replace_all(self, exec_str, 1, first_arg, all_args)

(***************************************************************************)
(* desktop_entry.rs: DesktopEntry::parse                                   *)
(***************************************************************************)
\* string literals of the parser
S_DesktopEntry ==
    <<"[", "D", "e", "s", "k", "t", "o", "p", SP, "E", "n", "t", "r", "y",
      "]">>
S_Name == <<"N", "a", "m", "e">>
S_Exec == <<"E", "x", "e", "c">>
S_TryExec == <<"T", "r", "y", "E", "x", "e", "c">>
S_Path == <<"P", "a", "t", "h">>
S_Type == <<"T", "y", "p", "e">>
S_NoDisplay == <<"N", "o", "D", "i", "s", "p", "l", "a", "y">>
S_Hidden == <<"H", "i", "d", "d", "e", "n">>
S_StartupNotify ==
    <<"S", "t", "a", "r", "t", "u", "p", "N", "o", "t", "i", "f", "y">>
S_Terminal == <<"T", "e", "r", "m", "i", "n", "a", "l">>
S_true == <<"t", "r", "u", "e">>
S_Application == <<"A", "p", "p", "l", "i", "c", "a", "t", "i", "o", "n">>

\* White_Space characters (str::trim, \s) occurring in the model
Whitespace == {SP, "\t", "\n", "\r"}

\* [A-Za-z0-9-]
KeyChars ==
    {"A", "B", "C", "D", "E", "F", "G", "H", "I", "J", "K", "L",
     "M", "N", "O", "P", "Q", "R", "S", "T", "U", "V", "W", "X",
     "Y", "Z", "a", "b", "c", "d", "e", "f", "g", "h", "i", "j",
     "k", "l", "m", "n", "o", "p", "q", "r", "s", "t", "u", "v",
     "w", "x", "y", "z", "0", "1", "2", "3", "4", "5", "6", "7",
     "8", "9", "-"}

\* a line that is not valid UTF-8: BufRead::lines yields Err for it
InvalidUtf8 == [invalid_utf8 |-> TRUE]

\* str::trim
RECURSIVE trim_start(_)
trim_start(s) ==
    IF s # <<>> /\ Head(s) \in Whitespace THEN trim_start(Tail(s)) ELSE s

RECURSIVE trim_end(_)
trim_end(s) ==
    IF s # <<>> /\ s[Len(s)] \in Whitespace
    THEN trim_end(SubSeq(s, 1, Len(s) - 1)) ELSE s

trim(s) == trim_end(trim_start(s))

\* end of the longest run of characters of set starting at i (i - 1 if none)
RECURSIVE run_of(_, _, _)
run_of(s, i, set) ==
    IF i > Len(s) \/ s[i] \notin set THEN i - 1 ELSE run_of(s, i + 1, set)

\* index of the first c at or after i, 0 if there is none
RECURSIVE index_of(_, _, _)
index_of(s, i, c) ==
    IF i > Len(s) THEN 0 ELSE IF s[i] = c THEN i ELSE index_of(s, i + 1, c)

\* (?:\[[^]]+\])? after position k: the end of the bracketed suffix, k if absent
locale_suffix_end(s, k) ==
    LET close == index_of(s, k + 2, "]")
    IN  IF k + 1 <= Len(s) /\ s[k + 1] = "[" /\ close > k + 2 THEN close ELSE k

\* KV_PAIR = ^([A-Za-z0-9-]+(?:\[[^]]+\])?)\s*=\s*(.*)$ : the captures, or None
KV_PAIR_captures(line) ==
    LET k == run_of(line, 1, KeyChars)
        key_end == locale_suffix_end(line, k)
        eq == run_of(line, key_end + 1, Whitespace) + 1
        val_start == run_of(line, eq + 1, Whitespace) + 1
    IN  IF k >= 1 /\ eq <= Len(line) /\ line[eq] = "="
        THEN Some([key |-> SubSeq(line, 1, key_end),
                   value |-> SubSeq(line, val_start, Len(line))])
        ELSE None

\* LOCALIZED_NAME = ^Name\[([^]]+)\]$ : the captured locale, or None
LOCALIZED_NAME_captures(key) ==
    LET n == Len(S_Name)
    IN  IF /\ Len(key) >= n + 3
           /\ SubSeq(key, 1, n) = S_Name
           /\ key[n + 1] = "["
           /\ index_of(key, n + 2, "]") = Len(key)
        THEN Some(SubSeq(key, n + 2, Len(key) - 1))
        ELSE None

\* Iterator::position
position(seq, x) ==
    LET at == {i \in 1..Len(seq) : seq[i] = x}
    IN  IF at = {} THEN None ELSE Some(Min(at))

\* the local variables of parse before the first line
parse_locals ==
    [Name |-> None, Exec |-> None, TryExec |-> None, Path |-> None, Type |-> None,
     NoDisplay |-> FALSE, Hidden |-> FALSE, StartupNotify |-> TRUE, Terminal |-> FALSE,
     in_desktop_entry_section |-> FALSE,
     localized_name |-> None, localized_name_idx |-> 0]

\* match key { ... }
match_key(st, key, value) ==
    CASE key = S_Name -> [st EXCEPT !.Name = Some(value)]
      [] key = S_Exec -> [st EXCEPT !.Exec = Some(value)]
      [] key = S_TryExec -> [st EXCEPT !.TryExec = Some(value)]
      [] key = S_Path -> [st EXCEPT !.Path = Some(value)]
      [] key = S_Type -> [st EXCEPT !.Type = Some(value)]
      [] key = S_NoDisplay -> [st EXCEPT !.NoDisplay = (value = S_true)]
      [] key = S_Hidden -> [st EXCEPT !.Hidden = (value = S_true)]
      [] key = S_StartupNotify -> [st EXCEPT !.StartupNotify = (value = S_true)]
      [] key = S_Terminal -> [st EXCEPT !.Terminal = (value = S_true)]
      [] OTHER -> st

\* a variant in which a later line of the same candidate index wins
localized_name_line_last_wins(st, locale, value, locale_keys) ==
    LET idx == position(locale_keys, locale)
    IN  IF idx.is_some
           /\ (~st.localized_name.is_some \/ idx.val - 1 <= st.localized_name_idx)
        THEN [st EXCEPT !.localized_name = Some(value),
                        !.localized_name_idx = idx.val - 1]
        ELSE st

\* a Name[locale] line
localized_name_line(st, locale, value, locale_keys) ==
    LET idx == position(locale_keys, locale)
    IN  IF idx.is_some
           /\ (~st.localized_name.is_some \/ idx.val - 1 < st.localized_name_idx)
        THEN [st EXCEPT !.localized_name = Some(value),
                        !.localized_name_idx = idx.val - 1]
        ELSE st

\* a variant that reads key/value lines in every section
scan_line_any_section(st, raw_line, locale_keys) ==
    LET line == trim(raw_line)
        caps == KV_PAIR_captures(line)
        loc == LOCALIZED_NAME_captures(caps.val.key)
    IN  IF line = <<>> THEN st
        ELSE IF line[1] = "["
            THEN [st EXCEPT !.in_desktop_entry_section = (line = S_DesktopEntry)]
        ELSE IF line[1] = "#" THEN st
        ELSE IF ~caps.is_some THEN st
        ELSE IF loc.is_some
            THEN localized_name_line(st, loc.val, caps.val.value, locale_keys)
        ELSE match_key(st, caps.val.key, caps.val.value)

\* one iteration of the loop over the lines of the file
scan_line(st, raw_line, locale_keys) ==
    LET line == trim(raw_line)
        caps == KV_PAIR_captures(line)
        loc == LOCALIZED_NAME_captures(caps.val.key)
    IN  IF line = <<>> THEN st
        ELSE IF line[1] = "["
            THEN [st EXCEPT !.in_desktop_entry_section = (line = S_DesktopEntry)]
        ELSE IF ~st.in_desktop_entry_section THEN st
        ELSE IF line[1] = "#" THEN st
        ELSE IF ~caps.is_some THEN st
        ELSE IF loc.is_some
            THEN localized_name_line(st, loc.val, caps.val.value, locale_keys)
        ELSE match_key(st, caps.val.key, caps.val.value)

Ok(v) == [ok |-> TRUE, val |-> v]
ParseError(msg) == [ok |-> FALSE, err |-> "ParseError", msg |-> msg]
IoError == [ok |-> FALSE, err |-> "IoError"]

\* the record parse returns on success
new_entry(st, name, filepath, mtime) ==
    [Name |-> name.val, Exec |-> st.Exec, TryExec |-> st.TryExec, Path |-> st.Path,
     Type |-> st.Type.val, NoDisplay |-> st.NoDisplay, Hidden |-> st.Hidden,
     StartupNotify |-> st.StartupNotify, Terminal |-> st.Terminal,
     location |-> filepath, mtime |-> mtime]

\* a variant that validates Name before Type
parse_finish_name_first(st, filepath, mtime) ==
    LET Name == IF st.localized_name.is_some THEN st.localized_name ELSE st.Name
    IN  IF ~Name.is_some THEN ParseError("missing Name key")
        ELSE IF ~st.Type.is_some THEN ParseError("missing Type key")
        ELSE IF ~st.Exec.is_some /\ st.Type.val = S_Application
            THEN ParseError("missing Exec key")
        ELSE Ok(new_entry(st, Name, filepath, mtime))

\* a variant that does not ask for Exec
parse_finish_no_exec_check(st, filepath, mtime) ==
    LET Name == IF st.localized_name.is_some THEN st.localized_name ELSE st.Name
    IN  IF ~st.Type.is_some THEN ParseError("missing Type key")
        ELSE IF ~Name.is_some THEN ParseError("missing Name key")
        ELSE Ok(new_entry(st, Name, filepath, mtime))

\* the end of parse: localized name override and validation
parse_finish(st, filepath, mtime) ==
    LET Name == IF st.localized_name.is_some THEN st.localized_name ELSE st.Name
    IN  IF ~st.Type.is_some THEN ParseError("missing Type key")
        ELSE IF ~Name.is_some THEN ParseError("missing Name key")
        ELSE IF ~st.Exec.is_some /\ st.Type.val = S_Application
            THEN ParseError("missing Exec key")
        ELSE Ok(new_entry(st, Name, filepath, mtime))

\* the loop over lines i.. of the file; IoError at the first undecodable line
RECURSIVE scan_lines(_, _, _, _)
scan_lines(st, lines, i, locale_keys) ==
    IF i > Len(lines) THEN Ok(st)
    ELSE IF lines[i] = InvalidUtf8 THEN IoError
    ELSE scan_lines(scan_line(st, lines[i], locale_keys), lines, i + 1, locale_keys)

\* parse of the file at filepath; file is its state on disk
\* (readable, mtime, lines) or NoFile
parse(filepath, locale_keys, file) ==
    IF ~file.readable THEN IoError
    ELSE LET scanned == scan_lines(parse_locals, file.lines, 1, locale_keys)
         IN  IF ~scanned.ok THEN IoError
             ELSE parse_finish(scanned.val, filepath, file.mtime)

(***************************************************************************)
(* desktop_entry.rs: escape_chars, get_arg0, remove_invalid_tryexec,       *)
(* get_exec_str; utils.rs: join_path                                       *)
(***************************************************************************)
\* the while loop of escape_chars, from index i on
RECURSIVE escape_chars_from(_, _)
escape_chars_from(old_chars, i) ==
    IF i > Len(old_chars) THEN <<>>
    ELSE IF old_chars[i] = BS /\ i + 1 <= Len(old_chars)
        THEN (CASE old_chars[i + 1] = "s" -> <<SP>>
                [] old_chars[i + 1] = "n" -> <<"\n">>
                [] old_chars[i + 1] = "t" -> <<"\t">>
                [] old_chars[i + 1] = "r" -> <<"\r">>
                [] old_chars[i + 1] = BS -> <<BS>>
                [] OTHER -> <<BS, old_chars[i + 1]>>)
             \o escape_chars_from(old_chars, i + 2)
        ELSE <<old_chars[i]>> \o escape_chars_from(old_chars, i + 1)

\* a variant that scans its own result once more
escape_chars_twice(cmd) == escape_chars_from(escape_chars_from(cmd, 1), 1)

escape_chars(cmd) == escape_chars_from(cmd, 1)

map_option_escape_chars(opt) ==
    IF opt.is_some THEN Some(escape_chars(opt.val)) ELSE None

escape_chars_for_exec_keys(self) ==
    [self EXCEPT !.TryExec = map_option_escape_chars(@),
                 !.Exec = map_option_escape_chars(@)]

\* largest member of a non-empty set of integers
Max(S) == CHOOSE x \in S : \A y \in S : x >= y

\* NONQUOTED_ARG0 = ^([^"]+)(?:\s|$) : the greedy capture, or None
NONQUOTED_ARG0_captures(s) ==
    LET ends == {k \in 1..Len(s) :
                    /\ \A j \in 1..k : s[j] # DQ
                    /\ k = Len(s) \/ s[k + 1] \in Whitespace}
    IN  IF ends = {} THEN None ELSE Some(SubSeq(s, 1, Max(ends)))

\* QUOTED_ARG0 = ^"([^"]+)"(?:\s|$) : the capture, or None
QUOTED_ARG0_captures(s) ==
    LET close == index_of(s, 2, DQ)
    IN  IF /\ Len(s) >= 1 /\ s[1] = DQ
           /\ close > 2
           /\ close = Len(s) \/ s[close + 1] \in Whitespace
        THEN Some(SubSeq(s, 2, close - 1))
        ELSE None

get_arg0(exec_str) ==
    IF NONQUOTED_ARG0_captures(exec_str).is_some
        THEN NONQUOTED_ARG0_captures(exec_str).val
    ELSE IF QUOTED_ARG0_captures(exec_str).is_some
        THEN QUOTED_ARG0_captures(exec_str).val
    ELSE exec_str

join_path(s1, s2) ==
    IF s1 # <<>> /\ s1[Len(s1)] = "/" THEN s1 \o s2 ELSE s1 \o <<"/">> \o s2

\* 0o111
ExecuteBits == 73

\* mode & 0o111
and_execute_bits(mode) ==
    (mode % 2) + 8 * ((mode \div 8) % 2) + 64 * ((mode \div 64) % 2)

\* fs::metadata(path).map_or(false, ...); modes maps the existing paths to
\* their permission bits
is_executable(path, modes) ==
    path \in DOMAIN modes /\ and_execute_bits(modes[path]) = ExecuteBits

remove_invalid_tryexec(self, env_paths, modes) ==
    IF ~self.TryExec.is_some THEN self
    ELSE LET arg0 == get_arg0(self.TryExec.val)
             try_exec_is_valid ==
                IF \E i \in 1..Len(arg0) : arg0[i] = "/"
                THEN is_executable(arg0, modes)
                ELSE \E i \in 1..Len(env_paths) :
                        is_executable(join_path(env_paths[i], arg0), modes)
         IN  IF ~try_exec_is_valid THEN [self EXCEPT !.TryExec = None] ELSE self

\* the Option::unwrap of an absent Exec panics
get_exec_str(self) ==
    IF self.TryExec.is_some THEN Ok(self.TryExec.val)
    ELSE IF self.Exec.is_some THEN Ok(self.Exec.val)
    ELSE [ok |-> FALSE, err |-> "panic"]

(***************************************************************************)
(* lib.rs: XDGManager                                                      *)
(***************************************************************************)
\* "/.local/share"
S_local_share ==
    <<"/", ".", "l", "o", "c", "a", "l", "/", "s", "h", "a", "r", "e">>

\* "/usr/local/share/:/usr/share/"
S_default_data_dirs ==
    <<"/", "u", "s", "r", "/", "l", "o", "c", "a", "l", "/", "s", "h", "a",
      "r", "e", "/", ":", "/", "u", "s", "r", "/", "s", "h", "a", "r", "e",
      "/">>

\* "applications"
S_applications ==
    <<"a", "p", "p", "l", "i", "c", "a", "t", "i", "o", "n", "s">>

\* ".desktop"
S_dot_desktop == <<".", "d", "e", "s", "k", "t", "o", "p">>

\* str::split(':')
RECURSIVE split_colon(_)
split_colon(s) ==
    LET c == index_of(s, 1, ":")
    IN  IF c = 0 THEN <<s>>
        ELSE <<SubSeq(s, 1, c - 1)>> \o split_colon(SubSeq(s, c + 1, Len(s)))

\* (self.get_env)(key): e maps the variables that are set to their values
get_env(e, key) == IF key \in DOMAIN e THEN Ok(e[key]) ELSE [ok |-> FALSE]

get_data_dirs(e) ==
    LET xdg_data_home ==
            IF get_env(e, "XDG_DATA_HOME").ok THEN e["XDG_DATA_HOME"]
            ELSE e["HOME"] \o S_local_share
        xdg_data_dirs ==
            IF get_env(e, "XDG_DATA_DIRS").ok THEN e["XDG_DATA_DIRS"]
            ELSE S_default_data_dirs
    IN  <<xdg_data_home>> \o split_colon(xdg_data_dirs)

get_env_paths(e) ==
    IF get_env(e, "PATH").ok THEN split_colon(e["PATH"]) ELSE <<>>

get_lc_messages(e) ==
    IF get_env(e, "LC_ALL").ok THEN e["LC_ALL"]
    ELSE IF get_env(e, "LC_MESSAGES").ok THEN e["LC_MESSAGES"]
    ELSE IF get_env(e, "LANG").ok THEN e["LANG"]
    ELSE <<"C">>

\* str::ends_with
ends_with(s, suffix) ==
    Len(s) >= Len(suffix) /\ SubSeq(s, Len(s) - Len(suffix) + 1, Len(s)) = suffix

\* a variant that keeps a record of any type, hidden or not
get_desktop_entry_from_file_no_filter(path, file, locale_keys, env_paths, modes) ==
    LET parsed == parse(path, locale_keys, file)
    IN  IF ~parsed.ok THEN None
        ELSE Some(remove_invalid_tryexec(escape_chars_for_exec_keys(parsed.val),
                                         env_paths, modes))

\* a variant that makes up a record for a file that does not parse
get_desktop_entry_from_file_placeholder(path, file, locale_keys, env_paths, modes) ==
    LET parsed == parse(path, locale_keys, file)
        st == [parse_locals EXCEPT !.Type = Some(S_Application),
                                   !.Exec = Some(<<>>)]
    IN  IF ~parsed.ok THEN Some(new_entry(st, Some(path), path, 0))
        ELSE IF parsed.val.Type # S_Application THEN None
        ELSE IF parsed.val.Hidden \/ parsed.val.NoDisplay THEN None
        ELSE Some(remove_invalid_tryexec(escape_chars_for_exec_keys(parsed.val),
                                         env_paths, modes))

get_desktop_entry_from_file(path, file, locale_keys, env_paths, modes) ==
    LET parsed == parse(path, locale_keys, file)
    IN  IF ~parsed.ok THEN None
        ELSE IF parsed.val.Type # S_Application THEN None
        ELSE IF parsed.val.Hidden \/ parsed.val.NoDisplay THEN None
        ELSE Some(remove_invalid_tryexec(escape_chars_for_exec_keys(parsed.val),
                                         env_paths, modes))

Digits == <<"0", "1", "2", "3", "4", "5", "6", "7", "8", "9">>

\* Display of an integer (format!("{}", counter))
RECURSIVE to_string(_)
to_string(n) ==
    IF n < 10 THEN <<Digits[n + 1]>>
    ELSE to_string(n \div 10) \o <<Digits[(n % 10) + 1]>>

\* format!("{} ({})", name, counter)
format_name_counter(name, counter) ==
    name \o <<SP, "(">> \o to_string(counter) \o <<")">>

\* the while loop of get_unique_name_for_desktop_entry
RECURSIVE unique_name_loop(_, _, _, _)
unique_name_loop(app, existing_apps, name, counter) ==
    IF name \notin DOMAIN existing_apps THEN name
    ELSE unique_name_loop(app, existing_apps,
                          format_name_counter(app.Name, counter + 1), counter + 1)

\* a variant that starts the suffixes at (1)
get_unique_name_for_desktop_entry_from_one(app, existing_apps) ==
    IF app.Name \notin DOMAIN existing_apps THEN app.Name
    ELSE unique_name_loop(app, existing_apps, format_name_counter(app.Name, 1), 1)

get_unique_name_for_desktop_entry(app, existing_apps) ==
    unique_name_loop(app, existing_apps, app.Name, 1)

\* HashMap::insert
insert(map, key, value) ==
    [k \in DOMAIN map \cup {key} |-> IF k = key THEN value ELSE map[k]]

\* HashMap::new()
EmptyMap == [k \in {} |-> None]

\* if let Some(app) = ... { apps.insert(unique name, app) }
get_app_map_insert(apps_so_far, app) ==
    IF app.is_some
    THEN insert(apps_so_far,
                get_unique_name_for_desktop_entry(app.val, apps_so_far), app.val)
    ELSE apps_so_far

\* the body of the loop over the entries of one directory, for the entry
\* at path whose state on disk is file
get_app_map_entry(apps_so_far, path, file, locale_keys, env_paths, modes) ==
    IF file.is_file /\ ends_with(path, S_dot_desktop)
    THEN get_app_map_insert(apps_so_far,
                            get_desktop_entry_from_file(path, file, locale_keys,
                                                        env_paths, modes))
    ELSE apps_so_far

(***************************************************************************)
(* lib.rs: start_app_launcher; app_launcher.rs: the launch functions       *)
(***************************************************************************)
\* the characters of the model in code point order
CodePoints ==
    <<SP, DQ, "#", "%", "(", ")", "-", ".", "/", "0", "1", "2",
      "3", "4", "5", "6", "7", "8", "9", ":", "=", "@", "A", "B",
      "C", "D", "E", "F", "G", "H", "I", "J", "K", "L", "M", "N",
      "O", "P", "Q", "R", "S", "T", "U", "V", "W", "X", "Y", "Z",
      "[", BS, "]", "_", "a", "b", "c", "d", "e", "f", "g", "h",
      "i", "j", "k", "l", "m", "n", "o", "p", "q", "r", "s", "t",
      "u", "v", "w", "x", "y", "z">>

code_point(c) == Min({i \in 1..Len(CodePoints) : CodePoints[i] = c})

\* Ord for str: a <= b
str_le(a, b) ==
    LET diff == {i \in 1..Len(a) : i > Len(b) \/ a[i] # b[i]}
    IN  IF diff = {} THEN TRUE
        ELSE Min(diff) <= Len(b) /\ code_point(a[Min(diff)]) < code_point(b[Min(diff)])

\* Vec::sort of a set of distinct names
RECURSIVE sort(_)
sort(names) ==
    IF names = {} THEN <<>>
    ELSE LET least == CHOOSE x \in names : \A y \in names : str_le(x, y)
         IN  <<least>> \o sort(names \ {least})

\* str::rsplit_once(' ')
rsplit_once_space(s) ==
    LET at == {i \in 1..Len(s) : s[i] = SP}
    IN  IF at = {} THEN None
        ELSE Some([left |-> SubSeq(s, 1, Max(at) - 1),
                   right |-> SubSeq(s, Max(at) + 1, Len(s))])

\* "i3-msg"
S_i3_msg == <<"i", "3", "-", "m", "s", "g">>

\* "exec"
S_exec == <<"e", "x", "e", "c">>

\* "i3-sensible-terminal -e "
S_terminal ==
    <<"i", "3", "-", "s", "e", "n", "s", "i", "b", "l", "e", "-", "t", "e",
      "r", "m", "i", "n", "a", "l", SP, "-", "e", SP>>

\* "--no-startup-id"
S_no_startup_id ==
    <<"-", "-", "n", "o", "-", "s", "t", "a", "r", "t", "u", "p", "-", "i",
      "d">>

\* launch_i3_cmd_without_desktop_entry: the arguments of the command spawned
launch_i3_cmd_without_desktop_entry(cmd) ==
    <<S_i3_msg, S_exec, escape_for_i3_exec(cmd)>>

\* launch_i3_cmd: the arguments of the command spawned
launch_i3_cmd(desktop_entry_exec_str, app) ==
    LET i3_cmd == escape_for_i3_exec(desktop_entry_exec_str)
        cmd == IF app.Terminal THEN S_terminal \o i3_cmd ELSE i3_cmd
        no_startup_notify == IF app.StartupNotify THEN <<>> ELSE S_no_startup_id
    IN  <<S_i3_msg, S_exec \o <<SP>> \o no_startup_notify \o <<SP>> \o cmd>>

\* launch_desktop_entry: the arguments of the command spawned, or the panic
\* of get_exec_str
launch_desktop_entry(app, extra_args) ==
    IF get_exec_str(app).ok
    THEN Ok(launch_i3_cmd(replace_field_codes(app, get_exec_str(app).val, extra_args),
                          app))
    ELSE get_exec_str(app)

\* start_app_launcher after the chooser has returned: what the choice stands for
resolve_choice(app_map, choice) ==
    LET split == rsplit_once_space(choice)
    IN  IF choice \in DOMAIN app_map
            THEN [kind |-> "entry", name |-> choice, extra_args |-> <<>>]
        ELSE IF split.is_some /\ split.val.left \in DOMAIN app_map
            THEN [kind |-> "entry", name |-> split.val.left,
                  extra_args |-> <<split.val.right>>]
        ELSE [kind |-> "raw", cmd |-> choice]

\* the command start_app_launcher hands to i3-msg for a resolved choice
launch(app_map, target) ==
    IF target.kind = "entry"
    THEN launch_desktop_entry(app_map[target.name], target.extra_args)
    ELSE Ok(launch_i3_cmd_without_desktop_entry(target.cmd))

(***************************************************************************)
(* desktop_entry_cache.rs                                                  *)
(***************************************************************************)
CACHE_VERSION == 1

\* bincode::serialize of a VersionedCacheForSerialize: the u32 version, the
\* u64 length of data, the entries
serialize(cache) ==
    <<[u32 |-> cache.version], [u64 |-> Len(cache.data)]>>
        \o [i \in 1..Len(cache.data) |-> [entry |-> cache.data[i]]]

\* bincode::deserialize into a VersionedCacheForDeserialize; bytes after the
\* value are not looked at
deserialize(contents) ==
    IF Len(contents) < 2 THEN [ok |-> FALSE]
    ELSE IF "u32" \notin DOMAIN contents[1] \/ "u64" \notin DOMAIN contents[2]
        THEN [ok |-> FALSE]
    ELSE LET n == contents[2].u64
         IN  IF Len(contents) < 2 + n THEN [ok |-> FALSE]
             ELSE IF \E i \in 3..(2 + n) : "entry" \notin DOMAIN contents[i]
                 THEN [ok |-> FALSE]
             ELSE Ok([version |-> contents[1].u32,
                      data |-> [i \in 1..n |-> contents[2 + i].entry]])

\* fs::read of a file in the state file
fs_read(file) ==
    IF file.exists /\ file.readable THEN Ok(file.contents) ELSE [ok |-> FALSE]

\* for desktop_entry in cache.data { apps.insert(location, desktop_entry) }
RECURSIVE insert_cache_data(_, _, _)
insert_cache_data(data, i, acc) ==
    IF i > Len(data) THEN acc
    ELSE insert_cache_data(data, i + 1, insert(acc, data[i].location, data[i]))

\* get_cached_desktop_entries without the comparison of the version
get_cached_desktop_entries_any_version(file) ==
    LET contents == fs_read(file)
        cache == deserialize(contents.val)
    IN  IF ~contents.ok THEN EmptyMap
        ELSE IF ~cache.ok THEN EmptyMap
        ELSE insert_cache_data(cache.val.data, 1, EmptyMap)

\* get_cached_desktop_entries, file being the state of the cache file
get_cached_desktop_entries(file) ==
    LET contents == fs_read(file)
        cache == deserialize(contents.val)
    IN  IF ~contents.ok THEN EmptyMap
        ELSE IF ~cache.ok THEN EmptyMap
        ELSE IF cache.val.version # CACHE_VERSION THEN EmptyMap
        ELSE insert_cache_data(cache.val.data, 1, EmptyMap)

\* what fs::write can leave behind: the whole contents, the old file (the
\* file cannot be opened for writing), a file cut short
write_outcomes == {"written", "refused", "cut"}

\* save_desktop_entries_to_cache: the state of the cache file afterwards,
\* data being the entries in the order the iterator yields them
save_desktop_entries_to_cache(file, data, outcome) ==
    LET encoded == serialize([version |-> CACHE_VERSION, data |-> data])
    IN  IF outcome = "written"
            THEN [exists |-> TRUE, readable |-> TRUE, contents |-> encoded]
        ELSE IF outcome = "cut"
            THEN [exists |-> TRUE, readable |-> TRUE,
                  contents |-> SubSeq(encoded, 1, Len(encoded) - 1)]
        ELSE file

(***************************************************************************)
(* The pure functions, each applied once to an input drawn by Init         *)
(***************************************************************************)
\* the parser when no parse is going on
ParserOff == [pc |-> "off"]

\* no cache is in use
CacheOff ==
    /\ disk = <<>>
    /\ cache_file = <<>>
    /\ cached_apps = <<>>
    /\ pass = <<>>

\* no launcher is running
AppOff ==
    /\ env = <<>>
    /\ pc = "off"
    /\ dir_idx = 0
    /\ visited = <<>>
    /\ apps = <<>>
    /\ launched = <<>>
    /\ CacheOff

\* ---- escape_for_i3_exec ----
CmdAlphabet == {"a", SP, DQ, BS}

InitQuote ==
    /\ call \in {[fn |-> "escape_for_i3_exec", cmd |-> c] :
                    c \in Strs(CmdAlphabet, 0, MaxCmdLen)}
    /\ ret = NoRet
    /\ parser = ParserOff
    /\ AppOff

CallEscapeForI3Exec ==
    /\ call.fn = "escape_for_i3_exec"
    /\ ret = NoRet
    /\ ret' = Some(escape_for_i3_exec(call.cmd))
    /\ UNCHANGED <<call, parser>>
    /\ UNCHANGED appVars

NextQuote == CallEscapeForI3Exec

SpecQuote == InitQuote /\ [][NextQuote]_vars

\* ---- get_locale_keys ----
LangAlphabet == {"e", "n"}
CountryAlphabet == {"C", "A"}
EncodingAlphabet == {"U", "_"}
ModifierAlphabet == {"L", "_"}

\* the optional parts of lang[_COUNTRY][.ENCODING][@MODIFIER]; <<>> is an absent part
LocaleParts ==
    [lang : Strs(LangAlphabet, 1, MaxPartLen),
     country : Strs(CountryAlphabet, 0, MaxPartLen),
     encoding : Strs(EncodingAlphabet, 0, MaxPartLen),
     modifier : Strs(ModifierAlphabet, 0, MaxPartLen)]

Opt(sep, part) == IF part = <<>> THEN <<>> ELSE <<sep>> \o part

LocaleId(p) ==
    p.lang \o Opt("_", p.country) \o Opt(".", p.encoding) \o Opt("@", p.modifier)

InitLocale ==
    /\ call \in {[fn |-> "get_locale_keys", parts |-> p, lc_messages |-> LocaleId(p)] :
                    p \in LocaleParts}
    /\ ret = NoRet
    /\ parser = ParserOff
    /\ AppOff

CallGetLocaleKeys ==
    /\ call.fn = "get_locale_keys"
    /\ ret = NoRet
    /\ ret' = Some(get_locale_keys(call.lc_messages))
    /\ UNCHANGED <<call, parser>>
    /\ UNCHANGED appVars

NextLocale == CallGetLocaleKeys

SpecLocale == InitLocale /\ [][NextLocale]_vars

\* ---- replace_field_codes ----
TemplateAlphabet == {"%", "f", "U", "c", "i", "x", SP}

\* "app %f %i end"
TemplateExample ==
    <<"a", "p", "p", SP, "%", "f", SP, "%", "i", SP, "e", "n", "d">>

\* "/tmp/x"
ArgExample == <<"/", "t", "m", "p", "/", "x">>

ExtraArgsChoices ==
    { <<>>, <<ArgExample>>, << <<"%", "c">>, <<"y">> >> }

\* the record the template belongs to: Name "N%k", location "/d/a"
FieldCodeRecord ==
    [Name |-> <<"N", "%", "k">>, location |-> <<"/", "d", "/", "a">>]

InitFieldCodes ==
    /\ call \in {[fn |-> "replace_field_codes", self |-> FieldCodeRecord,
                  exec_str |-> t, extra_args |-> a] :
                    t \in Strs(TemplateAlphabet, 0, MaxTemplateLen) \cup {TemplateExample},
                    a \in ExtraArgsChoices}
    /\ ret = NoRet
    /\ parser = ParserOff
    /\ AppOff

CallReplaceFieldCodes ==
    /\ call.fn = "replace_field_codes"
    /\ ret = NoRet
    /\ ret' = Some(replace_field_codes(call.self, call.exec_str, call.extra_args))
    /\ UNCHANGED <<call, parser>>
    /\ UNCHANGED appVars

NextFieldCodes == CallReplaceFieldCodes

SpecFieldCodes == InitFieldCodes /\ [][NextFieldCodes]_vars

\* ---- DesktopEntry::parse, line by line ----
\* "[Desktop Entry]"
L_Header ==
    <<"[", "D", "e", "s", "k", "t", "o", "p", SP, "E", "n", "t", "r", "y",
      "]">>

\* "[X]"
L_OtherHeader == <<"[", "X", "]">>

\* "Type=Application"
L_TypeApp ==
    <<"T", "y", "p", "e", "=", "A", "p", "p", "l", "i", "c", "a", "t", "i",
      "o", "n">>

\* "Type=Link"
L_TypeLink == <<"T", "y", "p", "e", "=", "L", "i", "n", "k">>

\* "Name=A"
L_Name == <<"N", "a", "m", "e", "=", "A">>

\* "Name[de]=B"
L_NameDe == <<"N", "a", "m", "e", "[", "d", "e", "]", "=", "B">>

\* "Exec = a"
L_Exec == <<"E", "x", "e", "c", SP, "=", SP, "a">>

\* "#c"
L_Comment == <<"#", "c">>

\* "Hidden=true"
L_Hidden == <<"H", "i", "d", "d", "e", "n", "=", "t", "r", "u", "e">>

\* "  "
L_Blank == <<SP, SP>>

\* the lines a file may hold
LineChoices ==
    {L_Header, L_OtherHeader, L_TypeApp, L_TypeLink, L_Name, L_NameDe, L_Exec,
     L_Comment, L_Hidden, L_Blank}

\* "de_DE.U"
LC_de == <<"d", "e", "_", "D", "E", ".", "U">>

\* "C"
LC_C == <<"C">>

\* "/d/a"
ParsePath == <<"/", "d", "/", "a">>

InitParse ==
    /\ call \in {[fn |-> "parse", filepath |-> ParsePath,
                  locale_keys |-> get_locale_keys(lc)] : lc \in {LC_de, LC_C}}
    /\ ret = NoRet
    /\ parser = [pc |-> "closed"]
    /\ AppOff

\* File::open or File::metadata fails
ParseOpenFails ==
    /\ parser.pc = "closed"
    /\ ret' = IoError
    /\ parser' = [pc |-> "done"]
    /\ UNCHANGED <<call, appVars>>

\* File::open, metadata()?.modified()?
ParseOpen ==
    /\ parser.pc = "closed"
    /\ parser' = [pc |-> "lines", st |-> parse_locals, lines |-> <<>>, mtime |-> 1]
    /\ UNCHANGED <<call, ret, appVars>>

\* one iteration of the loop: the next line of the file is l
ParseLine ==
    /\ parser.pc = "lines"
    /\ Len(parser.lines) < MaxLines
    /\ \E l \in LineChoices :
        parser' = [parser EXCEPT !.st = scan_line(@, l, call.locale_keys),
                                 !.lines = Append(@, l)]
    /\ UNCHANGED <<call, ret, appVars>>

\* the next line cannot be decoded: line? returns the error
ParseLineFails ==
    /\ parser.pc = "lines"
    /\ Len(parser.lines) < MaxLines
    /\ ret' = IoError
    /\ parser' = [parser EXCEPT !.pc = "done", !.lines = Append(@, InvalidUtf8)]
    /\ UNCHANGED <<call, appVars>>

\* end of file: override by the localized name, validation
ParseEnd ==
    /\ parser.pc = "lines"
    /\ ret' = parse_finish(parser.st, call.filepath, parser.mtime)
    /\ parser' = [parser EXCEPT !.pc = "done"]
    /\ UNCHANGED <<call, appVars>>

NextParse ==
    \/ ParseOpenFails
    \/ ParseOpen
    \/ ParseLine
    \/ ParseLineFails
    \/ ParseEnd

SpecParse == InitParse /\ [][NextParse]_vars

\* ---- start_app_launcher ----
\* [Desktop Entry] / Type=Application / Name=A / Exec=a %f
F_App ==
    [is_file |-> TRUE, readable |-> TRUE, mtime |-> 1, ext |-> S_dot_desktop,
     lines |->
       <<<<"[", "D", "e", "s", "k", "t", "o", "p", SP, "E", "n", "t", "r", "y", "]">>,
         <<"T", "y", "p", "e", "=", "A", "p", "p", "l", "i", "c", "a", "t", "i", "o", "n">>,
         <<"N", "a", "m", "e", "=", "A">>,
         <<"E", "x", "e", "c", "=", "a", SP, "%", "f">>>>]

\* [Desktop Entry] / Type=Application / Name=A / Exec=b\\s%f / TryExec=a / Terminal=true
F_AppTerminal ==
    [is_file |-> TRUE, readable |-> TRUE, mtime |-> 1, ext |-> S_dot_desktop,
     lines |->
       <<<<"[", "D", "e", "s", "k", "t", "o", "p", SP, "E", "n", "t", "r", "y", "]">>,
         <<"T", "y", "p", "e", "=", "A", "p", "p", "l", "i", "c", "a", "t", "i", "o", "n">>,
         <<"N", "a", "m", "e", "=", "A">>,
         <<"E", "x", "e", "c", "=", "b", BS, BS, "s", "%", "f">>,
         <<"T", "r", "y", "E", "x", "e", "c", "=", "a">>,
         <<"T", "e", "r", "m", "i", "n", "a", "l", "=", "t", "r", "u", "e">>>>]

\* [Desktop Entry] / Type=Application / Name=A (2) / Exec=a
F_AppNamed2 ==
    [is_file |-> TRUE, readable |-> TRUE, mtime |-> 1, ext |-> S_dot_desktop,
     lines |->
       <<<<"[", "D", "e", "s", "k", "t", "o", "p", SP, "E", "n", "t", "r", "y", "]">>,
         <<"T", "y", "p", "e", "=", "A", "p", "p", "l", "i", "c", "a", "t", "i", "o", "n">>,
         <<"N", "a", "m", "e", "=", "A", SP, "(", "2", ")">>,
         <<"E", "x", "e", "c", "=", "a">>>>]

\* [Desktop Entry] / Type=Application / Name=A / Exec=a / Hidden=true
F_Hidden ==
    [is_file |-> TRUE, readable |-> TRUE, mtime |-> 1, ext |-> S_dot_desktop,
     lines |->
       <<<<"[", "D", "e", "s", "k", "t", "o", "p", SP, "E", "n", "t", "r", "y", "]">>,
         <<"T", "y", "p", "e", "=", "A", "p", "p", "l", "i", "c", "a", "t", "i", "o", "n">>,
         <<"N", "a", "m", "e", "=", "A">>,
         <<"E", "x", "e", "c", "=", "a">>,
         <<"H", "i", "d", "d", "e", "n", "=", "t", "r", "u", "e">>>>]

\* [Desktop Entry] / Name=A / Exec=a
F_NoType ==
    [is_file |-> TRUE, readable |-> TRUE, mtime |-> 1, ext |-> S_dot_desktop,
     lines |->
       <<<<"[", "D", "e", "s", "k", "t", "o", "p", SP, "E", "n", "t", "r", "y", "]">>,
         <<"N", "a", "m", "e", "=", "A">>,
         <<"E", "x", "e", "c", "=", "a">>>>]

\* [Desktop Entry] / Type=Link / Name=A
F_Link ==
    [is_file |-> TRUE, readable |-> TRUE, mtime |-> 1, ext |-> S_dot_desktop,
     lines |->
       <<<<"[", "D", "e", "s", "k", "t", "o", "p", SP, "E", "n", "t", "r", "y", "]">>,
         <<"T", "y", "p", "e", "=", "L", "i", "n", "k">>,
         <<"N", "a", "m", "e", "=", "A">>>>]

\* a file that cannot be opened
F_Unreadable ==
    [is_file |-> TRUE, readable |-> FALSE, mtime |-> 1, ext |-> S_dot_desktop,
     lines |-> <<>>]

\* the kinds of directory entries a listing may yield
FileChoices ==
    <<F_App, F_AppTerminal, F_AppNamed2, F_Hidden, F_NoType, F_Link, F_Unreadable>>

\* the executables on disk, with their permission bits: /b/a 0o755, /c/g 0o700
ExecutableModes ==
    (<<"/", "b", "/", "a">> :> 493) @@ (<<"/", "c", "/", "g">> :> 448)

\* HOME=/h XDG_DATA_HOME=/x XDG_DATA_DIRS=/u PATH=/c:/b LANG=de_DE.U
EnvCustom ==
    [HOME |-> <<"/", "h">>, XDG_DATA_HOME |-> <<"/", "x">>,
     XDG_DATA_DIRS |-> <<"/", "u">>, PATH |-> <<"/", "c", ":", "/", "b">>,
     LANG |-> LC_de]

\* HOME=/h XDG_DATA_DIRS=/u: the data home, the search path and the locale
\* take their defaults
EnvDefault == [HOME |-> <<"/", "h">>, XDG_DATA_DIRS |-> <<"/", "u">>]

\* the environments start_app_launcher is run in
EnvChoices == <<EnvCustom, EnvDefault>>

FileLetters == <<"a", "b", "c", "d", "e", "f", "g", "h", "i", "j">>

\* entry.path() of the k-th entry seen, found in data directory number d
EntryPath(e, d, k, id) ==
    join_path(join_path(get_data_dirs(e)[d], S_applications),
              <<FileLetters[k]>> \o FileChoices[id].ext)

PathOf(v) == EntryPath(env, v.dir, v.k, v.id)

Init ==
    /\ call = [fn |-> "start_app_launcher"]
    /\ ret = NoRet
    /\ parser = ParserOff
    /\ env \in {EnvChoices[e] : e \in 1..Len(EnvChoices)}
    /\ pc = "get_app_map"
    /\ dir_idx = 1
    /\ visited = <<>>
    /\ apps = EmptyMap
    /\ launched = <<>>
    /\ CacheOff

\* get_app_map: one iteration of the loop over the entries of a directory
VisitEntry ==
    /\ pc = "get_app_map"
    /\ Len(visited) < MaxFiles
    /\ \E id \in 1..Len(FileChoices) :
        LET k == Len(visited) + 1
        IN  /\ apps' = get_app_map_entry(apps, EntryPath(env, dir_idx, k, id),
                            FileChoices[id], get_locale_keys(get_lc_messages(env)),
                            get_env_paths(env), ExecutableModes)
            /\ visited' = Append(visited, [dir |-> dir_idx, k |-> k, id |-> id])
    /\ UNCHANGED <<fnVars, env, pc, dir_idx, launched, cacheVars>>

\* get_app_map: the directory is exhausted (or read_dir failed), on to the next
NextDataDir ==
    /\ pc = "get_app_map"
    /\ dir_idx < Len(get_data_dirs(env))
    /\ dir_idx' = dir_idx + 1
    /\ UNCHANGED <<fnVars, env, pc, visited, apps, launched, cacheVars>>

\* get_app_map returns after the last directory
GetAppMapReturns ==
    /\ pc = "get_app_map"
    /\ dir_idx = Len(get_data_dirs(env))
    /\ pc' = "get_dmenu_choice"
    /\ launched' = [app_names |-> sort(DOMAIN apps)]
    /\ visited' = <<>>
    /\ UNCHANGED <<fnVars, env, dir_idx, apps, cacheVars>>

\* "x"
T_x == <<"x">>

\* "x y"
T_x_y == <<"x", SP, "y">>

\* "zz"
T_zz == <<"z", "z">>

\* what dmenu may print: an offered name, an offered name and more text, other text
DmenuOutputs(app_map) ==
    {n \o <<"\n">> : n \in DOMAIN app_map}
    \cup {n \o <<SP>> \o t \o <<"\n">> : n \in DOMAIN app_map, t \in {T_x, T_x_y}}
    \cup {T_zz \o <<"\n">>, T_x_y \o <<"\n">>}

\* get_dmenu_choice fails: dmenu cannot be run or exits with a failure
DmenuFails ==
    /\ pc = "get_dmenu_choice"
    /\ pc' = "returned"
    /\ ret' = [ok |-> FALSE, err |-> "ChildProcessError"]
    /\ UNCHANGED <<call, parser, env, dir_idx, visited, apps, launched, cacheVars>>

\* get_dmenu_choice returns the trimmed output; the choice is resolved and
\* handed to i3-msg, whose spawn succeeds or fails
LaunchChoice ==
    /\ pc = "get_dmenu_choice"
    /\ \E out \in DmenuOutputs(apps), spawned \in BOOLEAN :
        LET choice == trim_end(out)
            target == resolve_choice(apps, choice)
            argv == launch(apps, target)
        IN  /\ launched' = [app_names |-> launched.app_names, choice |-> choice,
                            target |-> target, argv |-> argv]
            /\ ret' = IF ~argv.ok THEN argv
                      ELSE IF spawned THEN Ok(<<>>)
                      ELSE [ok |-> FALSE, err |-> "IoError"]
    /\ pc' = "returned"
    /\ UNCHANGED <<call, parser, env, dir_idx, visited, apps, cacheVars>>

Next ==
    \/ VisitEntry
    \/ NextDataDir
    \/ GetAppMapReturns
    \/ DmenuFails
    \/ LaunchChoice

Spec == Init /\ [][Next]_vars

\* ---- get_cached_desktop_entries ----
\* most entries in the data of a cache file
MaxCacheRecords == 2

\* /x/applications/a.desktop and /u/applications/b.desktop
CachePathA == EntryPath(EnvCustom, 1, 1, 1)
CachePathB == EntryPath(EnvCustom, 2, 2, 1)

\* the entry an earlier run obtained from a file of kind id at path
CachedEntry(path, id) ==
    get_desktop_entry_from_file(path, FileChoices[id], get_locale_keys(LC_C),
                                get_env_paths(EnvCustom), ExecutableModes).val

\* entries a cache file may hold: two for the first path, two for the second
CacheRecordChoices ==
    {CachedEntry(CachePathA, 1), CachedEntry(CachePathA, 2),
     CachedEntry(CachePathB, 1), CachedEntry(CachePathB, 3)}

\* the lists of at most n entries
RECURSIVE CacheData(_)
CacheData(n) ==
    IF n = 0 THEN {<<>>}
    ELSE CacheData(n - 1)
         \cup {Append(d, r) : d \in {x \in CacheData(n - 1) : Len(x) = n - 1},
                              r \in CacheRecordChoices}

\* contents no VersionedCacheForDeserialize can be read from: an empty file,
\* other bytes, a list shorter than its length says
GarbageChoices ==
    {<<>>, <<[junk |-> 0]>>,
     <<[u32 |-> CACHE_VERSION], [u64 |-> 2],
       [entry |-> CachedEntry(CachePathA, 1)]>>}

\* the states the cache file can be in when it is loaded
CacheFileChoices ==
    {[exists |-> FALSE, readable |-> FALSE, contents |-> <<>>]}
    \cup {[exists |-> TRUE, readable |-> FALSE,
           contents |-> serialize([version |-> CACHE_VERSION, data |-> <<>>])]}
    \cup {[exists |-> TRUE, readable |-> TRUE, contents |-> g] : g \in GarbageChoices}
    \cup {[exists |-> TRUE, readable |-> TRUE,
           contents |-> serialize([version |-> v, data |-> d])] :
            v \in {CACHE_VERSION - 1, CACHE_VERSION, CACHE_VERSION + 1},
            d \in CacheData(MaxCacheRecords)}

InitCacheLoad ==
    /\ call = [fn |-> "get_cached_desktop_entries"]
    /\ ret = NoRet
    /\ parser = ParserOff
    /\ env = <<>>
    /\ pc = "off"
    /\ dir_idx = 0
    /\ visited = <<>>
    /\ apps = <<>>
    /\ launched = <<>>
    /\ disk = <<>>
    /\ cache_file \in CacheFileChoices
    /\ cached_apps = <<>>
    /\ pass = <<>>

CallGetCachedDesktopEntries ==
    /\ call.fn = "get_cached_desktop_entries"
    /\ ret = NoRet
    /\ ret' = Some(get_cached_desktop_entries(cache_file))
    /\ UNCHANGED <<call, parser, appVars>>

NextCacheLoad == CallGetCachedDesktopEntries

SpecCacheLoad == InitCacheLoad /\ [][NextCacheLoad]_vars

\* ---- resolve_all ----
\* most resolution passes run one after the other
MaxPasses == 2

\* [Desktop Entry] / Type=Application / Name=A / Name[de]=B / Exec=a / TryExec=a
F_Localized ==
    [is_file |-> TRUE, readable |-> TRUE, mtime |-> 1, ext |-> S_dot_desktop,
     lines |->
       <<<<"[", "D", "e", "s", "k", "t", "o", "p", SP, "E", "n", "t", "r", "y", "]">>,
         <<"T", "y", "p", "e", "=", "A", "p", "p", "l", "i", "c", "a", "t", "i", "o", "n">>,
         <<"N", "a", "m", "e", "=", "A">>,
         <<"N", "a", "m", "e", "[", "d", "e", "]", "=", "B">>,
         <<"E", "x", "e", "c", "=", "a">>,
         <<"T", "r", "y", "E", "x", "e", "c", "=", "a">>>>]

\* the kinds of desktop entry files in the data directories
DiskFileChoices == {F_Localized, F_Hidden, F_NoType}

\* a.desktop in the first data directory, b.desktop in the second
DiskChoices ==
    {<<[dir |-> 1, k |-> 1, file |-> f1], [dir |-> 2, k |-> 2, file |-> f2]>> :
        f1 \in DiskFileChoices, f2 \in DiskFileChoices}

\* EnvCustom without LANG: the locale is C
EnvNoLang ==
    [HOME |-> <<"/", "h">>, XDG_DATA_HOME |-> <<"/", "x">>,
     XDG_DATA_DIRS |-> <<"/", "u">>, PATH |-> <<"/", "c", ":", "/", "b">>]

\* EnvCustom without PATH: the search path is empty
EnvNoPath ==
    [HOME |-> <<"/", "h">>, XDG_DATA_HOME |-> <<"/", "x">>,
     XDG_DATA_DIRS |-> <<"/", "u">>, LANG |-> LC_de]

\* the environments of a pass: same data directories, other locale or search path
PassEnvChoices == {EnvCustom, EnvNoLang, EnvNoPath}

\* the cache file before the first pass: missing, of an older version, not
\* deserializable (a cache of the current version is left by a pass)
CacheStartChoices ==
    {[exists |-> FALSE, readable |-> FALSE, contents |-> <<>>],
     [exists |-> TRUE, readable |-> TRUE,
      contents |-> serialize([version |-> CACHE_VERSION - 1,
                              data |-> <<CachedEntry(CachePathA, 1)>>])],
     [exists |-> TRUE, readable |-> TRUE, contents |-> <<[junk |-> 0]>>]}

\* the path of the directory entry v
DiskPath(e, v) ==
    join_path(join_path(get_data_dirs(e)[v.dir], S_applications),
              <<FileLetters[v.k]>> \o v.file.ext)

\* a fresh parse followed by the unescape pass and the TryExec validity check
parse_fresh(path, file, locale_keys, search_path_dirs, modes) ==
    LET parsed == parse(path, locale_keys, file)
    IN  IF ~parsed.ok THEN None
        ELSE Some(remove_invalid_tryexec(escape_chars_for_exec_keys(parsed.val),
                                         search_path_dirs, modes))

\* resolve_all, step 3, for one file: the cached record when the cache holds
\* one for that path with the same modified time, a fresh parse otherwise
resolve_file(cache, path, file, locale_keys, search_path_dirs, modes) ==
    IF path \in DOMAIN cache /\ cache[path].mtime = file.mtime
    THEN [record |-> Some(cache[path]), reused |-> TRUE]
    ELSE [record |-> parse_fresh(path, file, locale_keys, search_path_dirs, modes),
          reused |-> FALSE]

\* resolve_all, step 6: the records of type Application neither hidden nor
\* excluded from display
filter_visible(map) ==
    LET kept == {n \in DOMAIN map :
                    /\ map[n].Type = S_Application
                    /\ ~map[n].Hidden
                    /\ ~map[n].NoDisplay}
    IN  [n \in kept |-> map[n]]

\* the orders in which the records of map can be handed to the cache
RECURSIVE Orderings(_, _)
Orderings(map, names) ==
    IF names = {} THEN {<<>>}
    ELSE UNION {{<<map[n]>> \o rest : rest \in Orderings(map, names \ {n})} :
                    n \in names}

\* write is what the save of the pass ended as ("none" while there was none),
\* warned whether the failed write was logged
NewPass(n) ==
    [n |-> n, parsed_new_file |-> FALSE, parse_calls |-> 0, writes |-> 0,
     write |-> "none", warned |-> FALSE]

\* a variant that saves the cache in every pass
cache_needs_save_always(p) == TRUE

\* resolve_all, step 5: "if any file was freshly parsed"
cache_needs_save(p) == p.parsed_new_file

InitCache ==
    /\ call = [fn |-> "resolve_all"]
    /\ ret = NoRet
    /\ parser = ParserOff
    /\ env \in PassEnvChoices
    /\ pc = "load_cache"
    /\ dir_idx = 1
    /\ visited = <<>>
    /\ apps = EmptyMap
    /\ launched = <<>>
    /\ disk \in DiskChoices
    /\ cache_file \in CacheStartChoices
    /\ cached_apps = EmptyMap
    /\ pass = NewPass(1)

\* resolve_all, step 1
LoadCache ==
    /\ pc = "load_cache"
    /\ cached_apps' = get_cached_desktop_entries(cache_file)
    /\ pc' = "walk"
    /\ UNCHANGED <<fnVars, env, dir_idx, visited, apps, launched, disk,
                   cache_file, pass>>

\* resolve_all, steps 3 and 4 for the next file of the listing
ResolveFile ==
    /\ pc = "walk"
    /\ Len(visited) < Len(disk)
    /\ LET v == disk[Len(visited) + 1]
           r == resolve_file(cached_apps, DiskPath(env, v), v.file,
                             get_locale_keys(get_lc_messages(env)),
                             get_env_paths(env), ExecutableModes)
       IN  /\ visited' = Append(visited, [dir |-> v.dir, k |-> v.k,
                                          reused |-> r.reused,
                                          parsed |-> ~r.reused,
                                          record |-> r.record])
           /\ apps' = get_app_map_insert(apps, r.record)
           /\ dir_idx' = v.dir
           /\ pass' = [pass EXCEPT
                        !.parsed_new_file = @ \/ ~r.reused,
                        !.parse_calls = @ + (IF r.reused THEN 0 ELSE 1)]
    /\ UNCHANGED <<fnVars, env, pc, launched, disk, cache_file, cached_apps>>

\* resolve_all, steps 5 and 6: the cache is saved if a file was parsed, the
\* result is filtered and returned
FinishPass ==
    /\ pc = "walk"
    /\ Len(visited) = Len(disk)
    /\ IF cache_needs_save(pass)
       THEN \E data \in Orderings(apps, DOMAIN apps), outcome \in write_outcomes :
                /\ cache_file' = save_desktop_entries_to_cache(cache_file, data, outcome)
                /\ pass' = [pass EXCEPT !.writes = @ + 1,
                                        !.write = outcome,
                                        !.warned = (outcome # "written")]
       ELSE UNCHANGED <<cache_file, pass>>
    /\ apps' = filter_visible(apps)
    /\ ret' = Some(filter_visible(apps))
    /\ pc' = "done"
    /\ UNCHANGED <<call, parser, env, dir_idx, visited, launched, disk, cached_apps>>

\* between two passes a desktop entry file is written again: same contents,
\* newer modified time
TouchFile ==
    /\ pc = "done"
    /\ pass.n < MaxPasses
    /\ \E i \in 1..Len(disk) :
        /\ disk[i].file.mtime <= pass.n
        /\ disk' = [disk EXCEPT ![i].file.mtime = pass.n + 1]
    /\ UNCHANGED <<fnVars, env, pc, dir_idx, visited, apps, launched,
                   cache_file, cached_apps, pass>>

\* the next pass starts, in an environment of its own
NextPass ==
    /\ pc = "done"
    /\ pass.n < MaxPasses
    /\ env' \in PassEnvChoices
    /\ pass' = NewPass(pass.n + 1)
    /\ pc' = "load_cache"
    /\ dir_idx' = 1
    /\ visited' = <<>>
    /\ apps' = EmptyMap
    /\ cached_apps' = EmptyMap
    /\ ret' = NoRet
    /\ UNCHANGED <<call, parser, launched, disk, cache_file>>

NextCache ==
    \/ LoadCache
    \/ ResolveFile
    \/ FinishPass
    \/ TouchFile
    \/ NextPass

SpecCache == InitCache /\ [][NextCache]_vars

\* ---- escape_chars ----
\* longest string handed to escape_chars
MaxEscapeLen == 4

EscapeAlphabet == {BS, "s", "n", "t", "r", "a"}

InitEscape ==
    /\ call \in {[fn |-> "escape_chars", cmd |-> c] :
                    c \in Strs(EscapeAlphabet, 0, MaxEscapeLen)}
    /\ ret = NoRet
    /\ parser = ParserOff
    /\ AppOff

CallEscapeChars ==
    /\ call.fn = "escape_chars"
    /\ ret = NoRet
    /\ ret' = Some(escape_chars(call.cmd))
    /\ UNCHANGED <<call, parser, appVars>>

NextEscape == CallEscapeChars

SpecEscape == InitEscape /\ [][NextEscape]_vars

\* ---- remove_invalid_tryexec ----
\* permission bits of the file /b/a: 0o755 0o700 0o070 0o007 0o644 0o111
\* 0o100 0o010 0o001
ModeChoices == {493, 448, 56, 7, 420, 73, 64, 8, 1}

\* the file system: empty, or holding /b/a with some permission bits
ModesChoices ==
    {[p \in {} |-> 0]} \cup {(<<"/", "b", "/", "a">> :> mo) : mo \in ModeChoices}

\* TryExec: absent, a, /b/a, z, "a", b/a, a x
TryExecChoices ==
    {None, Some(<<"a">>), Some(<<"/", "b", "/", "a">>), Some(<<"z">>),
     Some(<<DQ, "a", DQ>>), Some(<<"b", "/", "a">>), Some(<<"a", SP, "x">>)}

\* search paths: none, /c:/b, /b/, /
EnvPathsChoices ==
    {<<>>, << <<"/", "c">>, <<"/", "b">> >>, << <<"/", "b", "/">> >>, << <<"/">> >>}

InitTryExec ==
    /\ call \in {[fn |-> "remove_invalid_tryexec",
                  self |-> [CachedEntry(CachePathA, 1) EXCEPT !.TryExec = t],
                  env_paths |-> ps, modes |-> ms] :
                    t \in TryExecChoices, ps \in EnvPathsChoices, ms \in ModesChoices}
    /\ ret = NoRet
    /\ parser = ParserOff
    /\ AppOff

CallRemoveInvalidTryexec ==
    /\ call.fn = "remove_invalid_tryexec"
    /\ ret = NoRet
    /\ ret' = Some(remove_invalid_tryexec(call.self, call.env_paths, call.modes))
    /\ UNCHANGED <<call, parser, appVars>>

NextTryExec == CallRemoveInvalidTryexec

SpecTryExec == InitTryExec /\ [][NextTryExec]_vars

\* ---- get_arg0 ----
\* longest string handed to get_arg0
MaxArg0Len == 4

Arg0Alphabet == {"a", "b", SP, DQ}

InitArg0 ==
    /\ call \in {[fn |-> "get_arg0", exec_str |-> s] :
                    s \in Strs(Arg0Alphabet, 0, MaxArg0Len)}
    /\ ret = NoRet
    /\ parser = ParserOff
    /\ AppOff

CallGetArg0 ==
    /\ call.fn = "get_arg0"
    /\ ret = NoRet
    /\ ret' = Some(get_arg0(call.exec_str))
    /\ UNCHANGED <<call, parser, appVars>>

NextArg0 == CallGetArg0

SpecArg0 == InitArg0 /\ [][NextArg0]_vars

\* ---- parse: the Name and Name[locale] lines ----
\* most lines of a file of Name lines read by one parse
MaxNameLines == 4

\* "Name=Z"
L_NameZ == <<"N", "a", "m", "e", "=", "Z">>

\* "Name[de]=E"
L_NameDe2 == <<"N", "a", "m", "e", "[", "d", "e", "]", "=", "E">>

\* "Name[de_DE]=D"
L_NameDeDE == <<"N", "a", "m", "e", "[", "d", "e", "_", "D", "E", "]", "=", "D">>

\* "Name[fr]=F"
L_NameFr == <<"N", "a", "m", "e", "[", "f", "r", "]", "=", "F">>
\* the lines a file of Name lines may hold
NameLineChoices ==
    {L_Header, L_OtherHeader, L_TypeLink, L_Name, L_NameZ, L_NameDe, L_NameDe2,
     L_NameDeDE, L_NameFr}

\* one iteration of the loop: the next line of the file is l
ParseNameLine ==
    /\ parser.pc = "lines"
    /\ Len(parser.lines) < MaxNameLines
    /\ \E l \in NameLineChoices :
        parser' = [parser EXCEPT !.st = scan_line(@, l, call.locale_keys),
                                 !.lines = Append(@, l)]
    /\ UNCHANGED <<call, ret, appVars>>

NextLocalized ==
    \/ ParseOpen
    \/ ParseNameLine
    \/ ParseEnd

SpecLocalized == InitParse /\ [][NextLocalized]_vars

\* ---- get_app_map: which entries reach the chooser ----
\* most directory entries seen in one walk of this kind
MaxVisibleFiles == 3

\* [Desktop Entry] / Type=Application / Name=A / Exec=a / NoDisplay=true
F_NoDisplay ==
    [is_file |-> TRUE, readable |-> TRUE, mtime |-> 1, ext |-> S_dot_desktop,
     lines |->
       <<<<"[", "D", "e", "s", "k", "t", "o", "p", SP, "E", "n", "t", "r", "y", "]">>,
         <<"T", "y", "p", "e", "=", "A", "p", "p", "l", "i", "c", "a", "t", "i", "o", "n">>,
         <<"N", "a", "m", "e", "=", "A">>,
         <<"E", "x", "e", "c", "=", "a">>,
         <<"N", "o", "D", "i", "s", "p", "l", "a", "y", "=", "t", "r", "u", "e">>>>]

\* [Desktop Entry] / Type=Application / Name=A
F_NoExec ==
    [is_file |-> TRUE, readable |-> TRUE, mtime |-> 1, ext |-> S_dot_desktop,
     lines |->
       <<<<"[", "D", "e", "s", "k", "t", "o", "p", SP, "E", "n", "t", "r", "y", "]">>,
         <<"T", "y", "p", "e", "=", "A", "p", "p", "l", "i", "c", "a", "t", "i", "o", "n">>,
         <<"N", "a", "m", "e", "=", "A">>>>]

\* a file whose name does not end with .desktop: [Desktop Entry] / Type=Application / Name=A / Exec=a
F_NotDesktop ==
    [is_file |-> TRUE, readable |-> TRUE, mtime |-> 1, ext |-> <<".", "t", "x", "t">>,
     lines |->
       <<<<"[", "D", "e", "s", "k", "t", "o", "p", SP, "E", "n", "t", "r", "y", "]">>,
         <<"T", "y", "p", "e", "=", "A", "p", "p", "l", "i", "c", "a", "t", "i", "o", "n">>,
         <<"N", "a", "m", "e", "=", "A">>,
         <<"E", "x", "e", "c", "=", "a">>>>]
\* the kinds of directory entries a listing may yield
VisibleFileChoices ==
    <<F_App, F_AppTerminal, F_Hidden, F_NoDisplay, F_Link, F_NoExec, F_NotDesktop>>

\* entry.path() of the k-th entry seen, found in data directory number d
VisibleEntryPath(e, d, k, id) ==
    join_path(join_path(get_data_dirs(e)[d], S_applications),
              <<FileLetters[k]>> \o VisibleFileChoices[id].ext)

\* get_app_map: one iteration of the loop over the entries of a directory
VisitVisibleEntry ==
    /\ pc = "get_app_map"
    /\ Len(visited) < MaxVisibleFiles
    /\ \E id \in 1..Len(VisibleFileChoices) :
        LET k == Len(visited) + 1
        IN  /\ apps' = get_app_map_entry(apps, VisibleEntryPath(env, dir_idx, k, id),
                            VisibleFileChoices[id],
                            get_locale_keys(get_lc_messages(env)),
                            get_env_paths(env), ExecutableModes)
            /\ visited' = Append(visited, [dir |-> dir_idx, k |-> k, id |-> id])
    /\ UNCHANGED <<fnVars, env, pc, dir_idx, launched, cacheVars>>

NextVisible ==
    \/ VisitVisibleEntry
    \/ NextDataDir
    \/ GetAppMapReturns
    \/ DmenuFails
    \/ LaunchChoice

SpecVisible == Init /\ [][NextVisible]_vars

(***************************************************************************)
(* Properties                                                              *)
(***************************************************************************)
Returned(fn) == call.fn = fn /\ ret # NoRet

\* concatenation of a sequence of strings
RECURSIVE Flatten(_)
Flatten(ss) == IF ss = <<>> THEN <<>> ELSE Head(ss) \o Flatten(Tail(ss))

\* ---- C1 ----
\* what a fresh parse of the i-th file of the listing gives in the pass under way
FreshRecord(i) ==
    parse_fresh(DiskPath(env, disk[i]), disk[i].file,
                get_locale_keys(get_lc_messages(env)), get_env_paths(env),
                ExecutableModes)

\* C1: a file whose record is taken from the cache (same path, same modified
\* time) is not parsed again, and the record used for it equals, field by
\* field, what a fresh parse followed by the unescape pass and the TryExec
\* check gives in the same pass, whatever its locale and search path.
C1_CacheTransparency ==
    call.fn = "resolve_all" =>
        \A i \in 1..Len(visited) :
            visited[i].reused =>
                /\ ~visited[i].parsed
                /\ visited[i].record = FreshRecord(i)

\* ---- C2 ----

\* what get_desktop_entry_from_file returns for every entry the walk can meet:
\* by environment, directory, position and kind of file (a tuple of tuples,
\* computed once)
ObtainedTable ==
    [e \in 1..Len(EnvChoices) |->
      [d \in 1..Len(get_data_dirs(EnvChoices[e])) |->
        [k \in 1..MaxFiles |->
          [id \in 1..Len(FileChoices) |->
            get_desktop_entry_from_file(
                EntryPath(EnvChoices[e], d, k, id), FileChoices[id],
                get_locale_keys(get_lc_messages(EnvChoices[e])),
                get_env_paths(EnvChoices[e]), ExecutableModes)]
          \o <<>>]
        \o <<>>]
      \o <<>>]
    \o <<>>

\* whether parse returns Ok, for every entry the walk can meet
ParseOkTable ==
    [e \in 1..Len(EnvChoices) |->
      [d \in 1..Len(get_data_dirs(EnvChoices[e])) |->
        [k \in 1..MaxFiles |->
          [id \in 1..Len(FileChoices) |->
            parse(EntryPath(EnvChoices[e], d, k, id),
                  get_locale_keys(get_lc_messages(EnvChoices[e])),
                  FileChoices[id]).ok]
          \o <<>>]
        \o <<>>]
      \o <<>>]
    \o <<>>

EnvIdx == CHOOSE e \in 1..Len(EnvChoices) : EnvChoices[e] = env

\* the record get_app_map obtains from the entry v (None: no record)
ObtainedFrom(v) == ObtainedTable[EnvIdx][v.dir][v.k][v.id]

\* the records obtained from the entries seen, one by one
Obtained == [i \in 1..Len(visited) |-> ObtainedFrom(visited[i])] \o <<>>

\* the display names under which the map holds the record of each entry seen
Assigned ==
    [i \in 1..Len(visited) |->
        {n \in DOMAIN apps : apps[n].location = PathOf(visited[i])}]
    \o <<>>

\* "N (2)"
Second(N) == N \o <<SP, "(", "2", ")">>

\* entries i and j lie in different directories, i in the one of higher priority,
\* both give a record named N and no other entry gives one named N or "N (2)"
CollidingPair(obtained, i, j, N) ==
    /\ visited[i].dir < visited[j].dir
    /\ obtained[i].is_some /\ obtained[i].val.Name = N
    /\ obtained[j].is_some /\ obtained[j].val.Name = N
    /\ \A o \in 1..Len(visited) :
        o \notin {i, j} /\ obtained[o].is_some
            => obtained[o].val.Name \notin {N, Second(N)}

Candidate(name, n) == IF n = 1 THEN name ELSE format_name_counter(name, n)

FailsToParse(v) == ~ParseOkTable[EnvIdx][v.dir][v.k][v.id]

\* the map get_app_map builds from the entries vs, from the i-th on (every
\* entry of FileChoices is a file whose name ends with .desktop)
RECURSIVE AppMapOf(_, _, _)
AppMapOf(vs, i, acc) ==
    IF i > Len(vs) THEN acc
    ELSE AppMapOf(vs, i + 1, get_app_map_insert(acc, ObtainedFrom(vs[i])))

Succeeds(v) == ~FailsToParse(v)

\* C3: files that fail to parse or to be read are skipped and the walk goes
\* on without an error; the map built is the map built from the same
\* directories without those files.
C3_FailureIsolation ==
    pc = "get_app_map" =>
        /\ ret = NoRet
        /\ apps = AppMapOf(SelectSeq(visited, Succeeds), 1, EmptyMap)

\* a file without Type and an unreadable file were seen before an application
C3_Witness ==
    /\ pc = "get_app_map"
    /\ Len(visited) = 3
    /\ visited[1].id = 5 /\ visited[2].id = 7 /\ visited[3].id = 1
    /\ DOMAIN apps = {<<"A">>}
    /\ apps[<<"A">>].location = PathOf(visited[3])

\* ---- C6 ----
Chosen == pc = "returned" /\ "choice" \in DOMAIN launched

\* choice is name, one space and a non-empty text
NameAndText(choice, name) ==
    /\ Len(choice) >= Len(name) + 2
    /\ SubSeq(choice, 1, Len(name) + 1) = name \o <<SP>>

\* C6: a chooser result N + " " + T, T not empty, that is no offered name
\* launches the record of N with the one extra argument T; a result equal to
\* an offered name launches that record without extra argument; only a result
\* of neither shape is handed on as a raw command.
C6_ChoiceResolution ==
    Chosen =>
        LET choice == launched.choice
            target == launched.target
        IN  /\ choice \in DOMAIN apps
                => target = [kind |-> "entry", name |-> choice, extra_args |-> <<>>]
            /\ \A N \in DOMAIN apps :
                choice \notin DOMAIN apps /\ NameAndText(choice, N)
                    => target = [kind |-> "entry", name |-> N,
                                 extra_args |->
                                    <<SubSeq(choice, Len(N) + 2, Len(choice))>>]
            /\ target.kind = "raw"
                => /\ choice \notin DOMAIN apps
                   /\ \A N \in DOMAIN apps : ~NameAndText(choice, N)

\* ---- C4 ----
\* get_cached_desktop_entries has returned
Loaded == Returned("get_cached_desktop_entries")

\* what deserialization makes of the contents of the cache file
Deserialized == deserialize(cache_file.contents)

\* the cache file is missing, unreadable, not deserializable or of another version
BadCacheFile ==
    \/ ~cache_file.exists
    \/ ~cache_file.readable
    \/ ~Deserialized.ok
    \/ Deserialized.val.version # CACHE_VERSION

\* C4: get_cached_desktop_entries always returns a map; the map is empty when
\* the cache file is missing, unreadable, not deserializable or carries a
\* version other than CACHE_VERSION; otherwise every entry of the file is
\* returned, and every returned entry is stored under its own location.
C4_CacheLoadNeverFails ==
    Loaded =>
        /\ ret.is_some
        /\ BadCacheFile => ret.val = EmptyMap
        /\ ~BadCacheFile =>
            DOMAIN ret.val = {Deserialized.val.data[i].location :
                                i \in 1..Len(Deserialized.val.data)}
        /\ \A p \in DOMAIN ret.val :
            /\ ret.val[p].location = p
            /\ \E i \in 1..Len(Deserialized.val.data) :
                Deserialized.val.data[i] = ret.val[p]

\* a readable cache file of another version that holds entries was loaded
C4_Witness ==
    /\ Loaded
    /\ cache_file.exists /\ cache_file.readable
    /\ Deserialized.ok
    /\ Deserialized.val.version # CACHE_VERSION
    /\ Deserialized.val.data # <<>>
    /\ ret.val = EmptyMap

\* ---- C5 ----
Parsed == call.fn = "parse" /\ parser.pc = "done" /\ ret # IoError

\* the name after the scan: a matched localized one, else the unsuffixed one
ScannedName ==
    IF parser.st.localized_name.is_some THEN parser.st.localized_name
    ELSE parser.st.Name

\* C5: after the scan, no Type gives "missing Type key" whatever else is
\* missing; else no Name (unsuffixed or matched localized) gives "missing Name
\* key"; else Type "Application" without Exec gives "missing Exec key"; every
\* other combination succeeds, Type=Link without Exec included.
C5_ValidationOrder ==
    Parsed =>
        /\ ~parser.st.Type.is_some => ret = ParseError("missing Type key")
        /\ parser.st.Type.is_some /\ ~ScannedName.is_some
            => ret = ParseError("missing Name key")
        /\ parser.st.Type.is_some /\ ScannedName.is_some
            => IF parser.st.Type.val = S_Application /\ ~parser.st.Exec.is_some
               THEN ret = ParseError("missing Exec key")
               ELSE ret.ok /\ ret.val.Name = ScannedName.val
        /\ parser.lines = <<L_Header>> => ret = ParseError("missing Type key")
        /\ parser.lines = <<L_Header, L_Name, L_Exec>>
            => ret = ParseError("missing Type key")
        /\ parser.lines = <<L_Header, L_TypeApp, L_Exec>>
            => ret = ParseError("missing Name key")
        /\ parser.lines = <<L_Header, L_TypeApp, L_Name>>
            => ret = ParseError("missing Exec key")
        /\ parser.lines = <<L_Header, L_TypeLink, L_Name>>
            => ret.ok /\ ret.val.Exec = None
        /\ parser.lines = <<L_Header, L_TypeApp, L_Name, L_Exec>>
            => ret.ok /\ ret.val.Exec = Some(<<"a">>)

\* a file with Type=Link, a Name and no Exec has been parsed successfully
C5_Witness ==
    /\ Parsed
    /\ parser.lines = <<L_Header, L_TypeLink, L_Name>>
    /\ ret.ok
    /\ ret.val.Type = <<"L", "i", "n", "k">>
    /\ ret.val.Exec = None

\* ---- C7 ----
\* the replacement the table of field codes gives for the code "%x"
TableValue(self, x, extra_args) ==
    CASE x \in {"f", "u"} -> IF extra_args = <<>> THEN <<>> ELSE extra_args[1]
      [] x \in {"F", "U"} -> join(extra_args, <<SP>>)
      [] x = "c" -> self.Name
      [] x = "k" -> self.location
      [] x = "%" -> <<"%">>
      [] OTHER -> <<>>

\* one left-to-right pass in which every "%x" is replaced per the table
RECURSIVE TablePass(_, _, _, _)
TablePass(self, s, i, extra_args) ==
    IF i > Len(s) THEN <<>>
    ELSE IF s[i] = "%" /\ i < Len(s)
         THEN TableValue(self, s[i + 1], extra_args) \o TablePass(self, s, i + 2, extra_args)
         ELSE <<s[i]>> \o TablePass(self, s, i + 1, extra_args)

\* C7: replace_field_codes turns every "%%" of the template into one literal
\* "%" and every other "%x" whose x is no field-code letter into the empty
\* string (the listed codes being replaced per the table).
C7_PercentAndUnknownCodes ==
    Returned("replace_field_codes") =>
        ret.val = TablePass(call.self, call.exec_str, 1, call.extra_args)

\* ---- C8 ----
\* the positions where a listed field code starts
CodeStarts(t) ==
    {i \in 1..(Len(t) - 1) : t[i] = "%" /\ t[i + 1] \in FIELD_CODE_letters}

\* what position i of the template contributes to the result
Contribution(self, t, i, extra_args) ==
    IF i \in CodeStarts(t) THEN TableValue(self, t[i + 1], extra_args)
    ELSE IF (i - 1) \in CodeStarts(t) THEN <<>>
    ELSE <<t[i]>>

\* "app /tmp/x  end"
ResultExample ==
    <<"a", "p", "p", SP, "/", "t", "m", "p", "/", "x", SP, SP, "e", "n", "d">>

\* C8: the result of replace_field_codes is the template in which each listed
\* code is replaced, once and without rescanning the inserted text, by its
\* table value (%f %u first extra argument or empty, %F %U all arguments
\* joined by a space, %c Name, %k source path, %i %d %D %n %N %v %m empty) and
\* every other character is copied unchanged; "app %f %i end" with ["/tmp/x"]
\* gives "app /tmp/x  end".
C8_ListedCodesOnePass ==
    Returned("replace_field_codes") =>
        /\ ret.val = Flatten([i \in 1..Len(call.exec_str) |->
                        Contribution(call.self, call.exec_str, i, call.extra_args)])
        /\ (call.exec_str = TemplateExample /\ call.extra_args = <<ArgExample>>
                => ret.val = ResultExample)

\* a substituted argument that itself holds a field code has been inserted as is
C8_Witness ==
    /\ Returned("replace_field_codes")
    /\ call.exec_str = <<"x", "%", "f">>
    /\ call.extra_args = << <<"%", "c">>, <<"y">> >>
    /\ ret.val = <<"x", "%", "c">>

\* ---- C9 ----
QuoteSpecial == {DQ, BS}

\* the quoting convention read backwards: a backslash gives the character after it
RECURSIVE unescape_i3(_, _)
unescape_i3(body, i) ==
    IF i > Len(body) THEN <<>>
    ELSE IF body[i] = BS /\ i < Len(body)
         THEN <<body[i + 1]>> \o unescape_i3(body, i + 2)
         ELSE <<body[i]>> \o unescape_i3(body, i + 1)

Unquote(q) == unescape_i3(SubSeq(q, 2, Len(q) - 1), 1)

\* where character i of s stands in the quoted string
QuotedPos(s, i) == 1 + i + CountIn(s, i, QuoteSpecial)

\* C9: escape_for_i3_exec(s) is s inside one pair of double quotes with a
\* backslash before every '"' and '\' of s and no other character added, and
\* unquoting it by the same convention gives s back.
C9_QuoteRoundTrip ==
    Returned("escape_for_i3_exec") =>
        LET s == call.cmd
            q == ret.val
        IN  /\ Len(q) = Len(s) + 2 + CountIn(s, Len(s), QuoteSpecial)
            /\ q[1] = DQ /\ q[Len(q)] = DQ
            /\ \A i \in 1..Len(s) :
                /\ q[QuotedPos(s, i)] = s[i]
                /\ s[i] \in QuoteSpecial => q[QuotedPos(s, i) - 1] = BS
            /\ Unquote(q) = s

\* a command holding a backslash and a double quote has been quoted
C9_Witness ==
    /\ Returned("escape_for_i3_exec")
    /\ call.cmd = <<"a", BS, DQ>>
    /\ ret.val = <<DQ, "a", BS, BS, BS, DQ, DQ>>

\* ---- C10 ----
\* the candidate list the table of the desktop entry specification gives
ExpectedLocaleKeys(p) ==
    LET lang_C == p.lang \o <<"_">> \o p.country
        at_M == <<"@">> \o p.modifier
    IN  IF p.country # <<>> /\ p.modifier # <<>>
            THEN <<lang_C \o at_M, lang_C, p.lang \o at_M, p.lang>>
        ELSE IF p.country # <<>> THEN <<lang_C, p.lang>>
        ELSE IF p.modifier # <<>> THEN <<p.lang \o at_M, p.lang>>
        ELSE <<p.lang>>

\* C10: for lang[_COUNTRY][.ENCODING][@MODIFIER] get_locale_keys returns, the
\* encoding removed, [lang_COUNTRY@MODIFIER, lang_COUNTRY, lang@MODIFIER, lang],
\* [lang_COUNTRY, lang], [lang@MODIFIER, lang] or [lang], in that order.
C10_LocaleKeys ==
    Returned("get_locale_keys") => ret.val = ExpectedLocaleKeys(call.parts)

\* a locale with country, encoding and modifier has been resolved to four keys
C10_Witness ==
    /\ Returned("get_locale_keys")
    /\ call.lc_messages = <<"e", "n", "_", "C", "A", ".", "U", "@", "L">>
    /\ Len(ret.val) = 4
    /\ ret.val[3] = <<"e", "n", "@", "L">>

\* ---- C11 ----
\* position i of s holds a backslash that begins an escape: it has a character
\* after it and is not itself the second character of an escape
RECURSIVE EscapeStart(_, _)
EscapeStart(s, i) ==
    /\ i >= 1
    /\ i < Len(s)
    /\ s[i] = BS
    /\ ~EscapeStart(s, i - 1)

\* what the escape of the character c stands for
EscapeValue(c) ==
    CASE c = "s" -> <<SP>>
      [] c = "n" -> <<"\n">>
      [] c = "t" -> <<"\t">>
      [] c = "r" -> <<"\r">>
      [] c = BS -> <<BS>>
      [] OTHER -> <<BS, c>>

\* what position i of s contributes to the result
EscapeContribution(s, i) ==
    IF EscapeStart(s, i) THEN EscapeValue(s[i + 1])
    ELSE IF EscapeStart(s, i - 1) THEN <<>>
    ELSE <<s[i]>>

\* C11: escape_chars replaces, in one scan from the left, a backslash followed
\* by s, n, t, r or backslash by space, newline, tab, carriage return or one
\* backslash; a backslash followed by another character is copied with that
\* character; a backslash at the end is copied; no character produced or
\* consumed by an escape is part of another one, so backslash backslash n
\* gives backslash n.
C11_EscapeOnePass ==
    Returned("escape_chars") =>
        /\ ret.val = Flatten([i \in 1..Len(call.cmd) |->
                                EscapeContribution(call.cmd, i)])
        /\ call.cmd = <<BS, BS, "n">> => ret.val = <<BS, "n">>

\* backslash backslash n has given backslash n
C11_Witness ==
    /\ Returned("escape_chars")
    /\ call.cmd = <<BS, BS, "n">>
    /\ ret.val = <<BS, "n">>

\* ---- C12 ----
\* the permission bits hold at least one execute bit
AnyExecuteBit(mode) == and_execute_bits(mode) # 0

\* the paths at which arg0 is looked up
LookupPaths(arg0, env_paths) ==
    IF \E i \in 1..Len(arg0) : arg0[i] = "/"
    THEN {arg0}
    ELSE {join_path(env_paths[i], arg0) : i \in 1..Len(env_paths)}

\* C12: remove_invalid_tryexec keeps TryExec exactly when the arg0 extracted
\* from it names an existing file with at least one execute bit, looked up
\* directly when arg0 holds a '/', else as dir/arg0 for a directory of the
\* search path; otherwise TryExec becomes absent; Exec and every other field
\* are left unchanged.
C12_TryExecValidity ==
    Returned("remove_invalid_tryexec") =>
        LET self == call.self
            valid ==
                /\ self.TryExec.is_some
                /\ \E p \in LookupPaths(get_arg0(self.TryExec.val), call.env_paths) :
                        /\ p \in DOMAIN call.modes
                        /\ AnyExecuteBit(call.modes[p])
        IN  ret.val = [self EXCEPT !.TryExec = IF valid THEN @ ELSE None]

\* ---- C13 ----
\* s up to, not including, the first character of set from position lo on;
\* None when there is none
UpToFirst(s, lo, set) ==
    LET at == {i \in lo..Len(s) : s[i] \in set}
    IN  IF at = {} THEN None ELSE Some(SubSeq(s, lo, Min(at) - 1))

\* C13: on a string that does not start with '"' get_arg0 returns the
\* characters before the first whitespace character, the whole string if it
\* holds no whitespace; on a string that starts with '"' it returns what
\* stands between that quote and the next '"', the whole string if there is
\* no closing quote.
C13_Arg0 ==
    Returned("get_arg0") =>
        LET s == call.exec_str
            word == UpToFirst(s, 1, Whitespace)
            quoted == UpToFirst(s, 2, {DQ})
        IN  IF s # <<>> /\ s[1] = DQ
            THEN ret.val = IF quoted.is_some THEN quoted.val ELSE s
            ELSE ret.val = IF word.is_some THEN word.val ELSE s

\* ---- C14 ----
\* the header line that governs line i of the file: the last line before it
\* that starts with '[', 0 when there is none
GoverningHeader(lines, i) ==
    LET hs == {h \in 1..(i - 1) : trim(lines[h]) # <<>> /\ trim(lines[h])[1] = "["}
    IN  IF hs = {} THEN 0 ELSE Max(hs)

\* line i of the file is a key/value line of the main section
MainSectionPair(lines, i) ==
    /\ trim(lines[i]) # <<>>
    /\ trim(lines[i])[1] \notin {"[", "#"}
    /\ KV_PAIR_captures(trim(lines[i])).is_some
    /\ GoverningHeader(lines, i) # 0
    /\ trim(lines[GoverningHeader(lines, i)]) = S_DesktopEntry

KeyOf(lines, i) == KV_PAIR_captures(trim(lines[i])).val.key
ValueOf(lines, i) == KV_PAIR_captures(trim(lines[i])).val.value

\* the candidate index of the locale of line i when line i is a Name[locale]
\* line of the main section whose locale is a candidate, 0 otherwise
CandidateIndex(lines, i, locale_keys) ==
    IF MainSectionPair(lines, i) /\ LOCALIZED_NAME_captures(KeyOf(lines, i)).is_some
    THEN LET idx == position(locale_keys, LOCALIZED_NAME_captures(KeyOf(lines, i)).val)
         IN  IF idx.is_some THEN idx.val ELSE 0
    ELSE 0

\* the name the claim selects from the lines of the file
SelectedName(lines, locale_keys) ==
    LET matching == {i \in 1..Len(lines) : CandidateIndex(lines, i, locale_keys) # 0}
        best == Min({CandidateIndex(lines, i, locale_keys) : i \in matching})
        plain == {i \in 1..Len(lines) :
                    MainSectionPair(lines, i) /\ KeyOf(lines, i) = S_Name}
    IN  IF matching # {}
        THEN Some(ValueOf(lines, Min({i \in matching :
                            CandidateIndex(lines, i, locale_keys) = best})))
        ELSE IF plain # {} THEN Some(ValueOf(lines, Max(plain)))
        ELSE None

\* C14: among the Name[locale] lines of the main section whose locale is a
\* candidate, the parsed name is the value of the line whose locale has the
\* smallest candidate index, the first such line in file order; it replaces
\* the unsuffixed Name wherever the Name line stands; when no Name[locale]
\* line matches, the last unsuffixed Name of the main section is used.
C14_LocalizedName ==
    Parsed =>
        /\ ScannedName = SelectedName(parser.lines, call.locale_keys)
        /\ ret.ok => ret.val.Name = SelectedName(parser.lines, call.locale_keys).val

\* Name[de]=B stands before Name[de_DE]=D: the name is D
C14_Witness ==
    /\ Parsed
    /\ parser.lines = <<L_Header, L_TypeLink, L_NameDe, L_NameDeDE>>
    /\ call.locale_keys = <<<<"d", "e", "_", "D", "E">>, <<"d", "e">>>>
    /\ ret.ok
    /\ ret.val.Name = <<"D">>

\* ---- C15 ----
\* the fields of the record being built
RecordFields(st) ==
    [f \in DOMAIN st \ {"in_desktop_entry_section"} |-> st[f]]

\* line i of the file is a key/value line outside the main section
OutsidePair(lines, i) ==
    /\ lines[i] # InvalidUtf8
    /\ trim(lines[i]) # <<>>
    /\ trim(lines[i])[1] \notin {"[", "#"}
    /\ KV_PAIR_captures(trim(lines[i])).is_some
    /\ ~MainSectionPair(lines, i)

\* the file without its key/value lines outside the main section, from line i on
RECURSIVE WithoutOutsidePairs(_, _)
WithoutOutsidePairs(lines, i) ==
    IF i > Len(lines) THEN <<>>
    ELSE (IF OutsidePair(lines, i) THEN <<>> ELSE <<lines[i]>>)
         \o WithoutOutsidePairs(lines, i + 1)

\* a step of the scan that reads the line l
ScansLine == parser.pc = "lines" /\ parser'.pc = "lines" /\ parser'.lines # parser.lines

\* C15: a line read by the scan changes the record being built only if it is
\* a key/value line and the most recent line starting with '[' is exactly
\* "[Desktop Entry]"; the result of parse is the result for the file without
\* its key/value lines before the first header or after another header.
C15_SectionScoping ==
    /\ [][ScansLine /\ RecordFields(parser'.st) # RecordFields(parser.st)
            => MainSectionPair(parser'.lines, Len(parser'.lines))]_vars
    /\ [](Parsed =>
            ret = parse(call.filepath, call.locale_keys,
                        [readable |-> TRUE, mtime |-> parser.mtime,
                         lines |-> WithoutOutsidePairs(parser.lines, 1)]))

\* Type=Application stands before the header, Type=Link after it: the type is Link
C15_Witness ==
    /\ Parsed
    /\ parser.lines = <<L_TypeApp, L_Header, L_TypeLink, L_Name>>
    /\ ret.ok
    /\ ret.val.Type = <<"L", "i", "n", "k">>

\* ---- C16 ----
\* the entry seen as number i of the walk: its path, its state on disk, the
\* result of parsing it
VisitedPath(i) == VisibleEntryPath(env, visited[i].dir, visited[i].k, visited[i].id)

VisitedFile(i) == VisibleFileChoices[visited[i].id]

VisitedParse(i) ==
    parse(VisitedPath(i), get_locale_keys(get_lc_messages(env)), VisitedFile(i))

\* a record that may be shown
Visible(app) == app.Type = S_Application /\ ~app.Hidden /\ ~app.NoDisplay

\* entry number i is a file named *.desktop that parses to a record that may be shown
ParsesToVisible(i) ==
    /\ VisitedFile(i).is_file
    /\ ends_with(VisitedPath(i), S_dot_desktop)
    /\ VisitedParse(i).ok
    /\ Visible(VisitedParse(i).val)

\* C16: every record of the map the chooser is given has Type Application,
\* Hidden false and NoDisplay false; the map the chooser is given is the map
\* the walk built; and every file the walk has seen that parses to such a
\* record is in the map under some name, as the record obtained from that
\* file (none dropped, none overwritten by a later one).
C16_Visibility ==
    /\ [](\A n \in DOMAIN apps : Visible(apps[n]))
    /\ [](pc = "get_app_map" =>
            \A i \in 1..Len(visited) :
                ParsesToVisible(i) =>
                    \E n \in DOMAIN apps :
                        apps[n] = remove_invalid_tryexec(
                                      escape_chars_for_exec_keys(VisitedParse(i).val),
                                      get_env_paths(env), ExecutableModes))
    /\ [][pc = "get_app_map" /\ pc' # "get_app_map"
            => apps' = apps /\ launched'.app_names = sort(DOMAIN apps)]_vars
    /\ [](pc # "get_app_map" => launched.app_names = sort(DOMAIN apps))

\* C16 witness: the walk saw an application, a NoDisplay=true file and the
\* same application again: the map holds two records, none for the second file
C16_Witness ==
    /\ pc = "get_app_map"
    /\ Len(visited) = 3
    /\ visited[1].id = 1 /\ visited[2].id = 4 /\ visited[3].id = 1
    /\ ParsesToVisible(1) /\ ~ParsesToVisible(2) /\ ParsesToVisible(3)
    /\ VisitedParse(2).ok
    /\ Cardinality(DOMAIN apps) = 2

\* ---- C17 ----
\* the step of a pass that writes, or tries to write, the cache file
WritesCache == pass'.n = pass.n /\ pass'.writes > pass.writes

\* the map built from the records of the first n files seen
RECURSIVE AppsOfLookups(_)
AppsOfLookups(n) ==
    IF n = 0 THEN EmptyMap
    ELSE get_app_map_insert(AppsOfLookups(n - 1), visited[n].record)

\* what the pass has built from the files seen so far, before the filter
ResultOfLookups == AppsOfLookups(Len(visited))

\* C17: within a pass the cache file is written at most once; the write is
\* the step that ends the walk, after the load and the lookup of every file
\* of the listing, and nothing is loaded or looked up after it; at the end of
\* a pass a write has happened exactly if a file was parsed in the pass; a
\* write that failed is logged, and the result of the pass is the one built
\* from the lookups whatever the write ended as.
C17_CacheWriteOrdering ==
    /\ [](pass.writes <= 1)
    /\ [][cache_file' # cache_file => WritesCache]_vars
    /\ [][WritesCache =>
            /\ pc = "walk" /\ pc' = "done"
            /\ Len(visited) = Len(disk)
            /\ visited' = visited /\ cached_apps' = cached_apps
            /\ pass.writes = 0]_vars
    /\ [][pass.writes = 1 /\ pass'.n = pass.n
            => visited' = visited /\ cached_apps' = cached_apps
               /\ cache_file' = cache_file]_vars
    /\ [](pc = "done" =>
            /\ pass.writes = 1 <=> \E i \in 1..Len(visited) : visited[i].parsed
            /\ pass.warned <=> pass.write \in {"refused", "cut"}
            /\ ret = Some(filter_visible(ResultOfLookups)))
    /\ [][WritesCache /\ pass'.write = "refused" => cache_file' = cache_file]_vars

\* C17 witness: a pass in which one file was parsed has ended, its write of
\* the cache failed and its result holds the record of that file
C17_Witness ==
    /\ pc = "done"
    /\ pass.writes = 1
    /\ pass.write = "refused"
    /\ \E i \in 1..Len(visited) : visited[i].parsed
    /\ ret.is_some
    /\ DOMAIN ret.val # {}

\* ---- C18 ----
\* TryExec if present, else Exec
EffectiveExec(app) == IF app.TryExec.is_some THEN app.TryExec ELSE app.Exec

\* the chooser's result stands for a record of the map
LaunchesEntry == Chosen /\ launched.target.kind = "entry"

\* C18: every record of the map has Exec present, whether or not
\* remove_invalid_tryexec left it a TryExec, so get_exec_str returns a string
\* for it: TryExec if present, else Exec; and a choice that stands for a record
\* is launched with the command made from that string.
C18_ExecStrNeverFails ==
    /\ \A n \in DOMAIN apps :
        /\ apps[n].Exec.is_some
        /\ get_exec_str(apps[n]) = Ok(EffectiveExec(apps[n]).val)
    /\ LaunchesEntry =>
        LET app == apps[launched.target.name]
        IN  /\ launched.argv.ok
            /\ launched.argv =
                  Ok(launch_i3_cmd(replace_field_codes(app, EffectiveExec(app).val,
                                                       launched.target.extra_args),
                                   app))

\* C18 witness: the record chosen comes from the file with TryExec=a and
\* Terminal=true, remove_invalid_tryexec has taken its TryExec away, and it
\* is launched
C18_Witness ==
    /\ LaunchesEntry
    /\ apps[launched.target.name].Terminal
    /\ ~apps[launched.target.name].TryExec.is_some
    /\ apps[launched.target.name].Exec.is_some
    /\ launched.argv.ok

=============================================================================
